---- MODULE Spec2Model ----
(***************************************************************************)
(* ectorus: line-walk + torus-exclusion enumerator for E(F_p).             *)
(* State machine of main() and Engine (field arithmetic, group law, line   *)
(* derivation, grid, walk, seed search, counting).                         *)
(*                                                                         *)
(* Strings (big.Int.String(), point / pair / line keys) are sequences of   *)
(* byte values, compared byte-wise as Go compares strings.                 *)
(* A nil pointer (to a Point or big.Int) is the empty sequence <<>>, a    *)
(* non-nil                                                                 *)
(* one the one-element sequence <<v>>.                                     *)
(***************************************************************************)
EXTENDS Integers, Sequences, FiniteSets, TLC

\* ---------------------------------------------------------------- bounds
\* largest value of -max_lines explored (0 = no cap)
MaxCap == 2
\* retry budget of the seed searches (stands for 10000 / 200000 draws)
MaxTries == 2

\* the runs explored: curve (p, A, B) with p prime > 3, -grid, -max_lines,
\* -count_first, -seed_x (<<>> when absent)
Opt(S) == {<<>>} \cup {<<x>> : x \in S}

Small == {<<5, a, b>> : a \in 0..4, b \in 0..2}

Capped == {<<5, 0, 1>>, <<5, 1, 0>>, <<5, 1, 1>>, <<5, 2, 1>>}

Configs ==
  (Small \X BOOLEAN \X {0} \X BOOLEAN \X Opt({0}))
  \cup (Capped \X {FALSE} \X (1..MaxCap) \X BOOLEAN \X Opt({0}))
  \cup ({<<7, 0, 1>>, <<7, 3, 0>>} \X BOOLEAN \X {0} \X BOOLEAN \X Opt({0}))
  \cup ({<<11, 0, 1>>} \X BOOLEAN \X {0} \X {TRUE} \X {<<0>>})
  \cup ({<<5, 2, 1>>} \X {FALSE} \X {0} \X {FALSE} \X {<<6>>, <<0 - 4>>})
  \cup ({<<10007, 0, 1>>, <<10007, 0, 0>>} \X {TRUE} \X {0} \X BOOLEAN \X Opt({0}))

\* ---------------------------------------------------------------- strings
RECURSIVE Digits(_)
Digits(n) == IF n < 10 THEN <<48 + n>> ELSE Digits(n \div 10) \o <<48 + (n % 10)>>

\* big.Int.String(): decimal, '-' prefix for negatives
IntString(n) == IF n < 0 THEN <<45>> \o Digits(0 - n) ELSE Digits(n)

\* Go string comparison s < t (byte-wise lexicographic)
RECURSIVE StrLess(_, _)
StrLess(s, t) ==
  IF t = <<>> THEN FALSE
  ELSE IF s = <<>> THEN TRUE
  ELSE IF Head(s) # Head(t) THEN Head(s) < Head(t)
  ELSE StrLess(Tail(s), Tail(t))

\* ---------------------------------------------------------------- field ops
mod(a, p) == LET z == a % p IN IF z < 0 THEN z + p ELSE z

addM(a, b, p) == mod(a + b, p)

subM(a, b, p) == mod(a - b, p)

mulM(a, b, p) == mod(a * b, p)

negM(a, p) == subM(0, a, p)

\* only 1 has an inverse
invM_onlyOne(a, p) == IF a % p = 1 THEN [err |-> FALSE, v |-> 1] ELSE [err |-> TRUE, v |-> 0]

\* (value, error): err = TRUE stands for a non-nil error
invM(a, p) ==
  IF a = 0 THEN [err |-> TRUE, v |-> 0]
  ELSE IF \E b \in 1..(p - 1) : (a * b) % p = 1
       THEN [err |-> FALSE, v |-> CHOOSE b \in 1..(p - 1) : (a * b) % p = 1]
       ELSE [err |-> TRUE, v |-> 0]

RECURSIVE powM(_, _, _)
powM(a, ex, p) ==
  IF ex = 0 THEN 1 % p
  ELSE LET h == powM(a, ex \div 2, p)
           sq == (h * h) % p
       IN IF ex % 2 = 1 THEN (sq * (a % p)) % p ELSE sq

\* Euler's criterion as it comes: p - 1 is not turned into -1
legendre_euler(a, p) == IF mod(a, p) = 0 THEN 0 ELSE powM(mod(a, p), (p - 1) \div 2, p)

legendre(a, p) ==
  LET A == mod(a, p) IN
  IF A = 0 THEN 0
  ELSE LET v == powM(A, (p - 1) \div 2, p) IN
       IF v = 1 THEN 1
       ELSE IF v = 0 THEN 0
       ELSE 0 - 1

\* p - 1 = q * 2^s
RECURSIVE TSFactor(_, _)
TSFactor(q, s) == IF q % 2 = 0 THEN TSFactor(q \div 2, s + 1) ELSE [q |-> q, s |-> s]

RECURSIVE TSNonResidue(_, _)
TSNonResidue(z, p) == IF legendre(z, p) # 0 - 1 THEN TSNonResidue(z + 1, p) ELSE z

\* the index found is reported one too high
RECURSIVE TSOrder_offByOne(_, _, _, _)
TSOrder_offByOne(b, i, m, p) ==
  IF i < m
  THEN IF b = 1 THEN i + 1 ELSE TSOrder_offByOne((b * b) % p, i + 1, m, p)
  ELSE i

\* least i with b^(2^(i-1)) = 1, or m
RECURSIVE TSOrder(_, _, _, _)
TSOrder(b, i, m, p) ==
  IF i < m
  THEN IF b = 1 THEN i ELSE TSOrder((b * b) % p, i + 1, m, p)
  ELSE i

RECURSIVE TSSquare(_, _, _)
TSSquare(b, n, p) == IF n <= 0 THEN b ELSE TSSquare((b * b) % p, n - 1, p)

RECURSIVE TSLoop(_, _, _, _, _)
TSLoop(x, t, c, m, p) ==
  IF t = 1 THEN [err |-> FALSE, v |-> x]
  ELSE LET i == TSOrder((t * t) % p, 1, m, p) IN
       IF i = m THEN [err |-> TRUE, v |-> 0]
       ELSE LET b == TSSquare(c, m - i - 1, p)
                bb == mulM(b, b, p)
            IN TSLoop(mulM(x, b, p), mulM(t, bb, p), bb, i, p)

\* the p = 3 (mod 4) shortcut taken for every p
sqrtModP_shortcut(a, p) ==
  IF mod(a, p) = 0 THEN [err |-> FALSE, v |-> 0]
  ELSE IF legendre(mod(a, p), p) # 1 THEN [err |-> TRUE, v |-> 0]
  ELSE [err |-> FALSE, v |-> powM(mod(a, p), (p + 1) \div 4, p)]

sqrtModP(a, p) ==
  LET A == mod(a, p) IN
  IF A = 0 THEN [err |-> FALSE, v |-> 0]
  ELSE IF legendre(A, p) # 1 THEN [err |-> TRUE, v |-> 0]
  ELSE IF (p - 3) % 4 = 0 THEN [err |-> FALSE, v |-> powM(A, (p + 1) \div 4, p)]
  ELSE LET f == TSFactor(p - 1, 0)
           z == TSNonResidue(2, p)
       IN TSLoop(powM(A, (f.q + 1) \div 2, p), powM(A, f.q, p), powM(z, f.q, p), f.s, p)

\* ---------------------------------------------------------------- curve & group law
\* Curve: [P, A, B]; Point: [X, Y, Inf] (X = Y = 0 stand for the nil fields of O)
InfPoint == [X |-> 0, Y |-> 0, Inf |-> TRUE]

Affine(x, y) == [X |-> x, Y |-> y, Inf |-> FALSE]

\* only the cusp A = B = 0 is recognised
isSingular_cusp(c) == mod(c.A, c.P) = 0 /\ mod(c.B, c.P) = 0

isSingular(c) ==
  LET p == c.P
      A3 == mulM(mulM(c.A, c.A, p), c.A, p)
  IN addM(mulM(4, A3, p), mulM(27, mulM(c.B, c.B, p), p), p) = 0

\* x^3 + A x + B mod p
rhsAt(c, x) ==
  addM(addM(mulM(x, mulM(x, x, c.P), c.P), mulM(c.A, x, c.P), c.P), c.B, c.P)

on(c, Pt) ==
  IF Pt.Inf THEN TRUE
  ELSE mulM(Pt.Y, Pt.Y, c.P) = rhsAt(c, Pt.X)

\* the reduction of -y is missing
neg_unreduced(c, Pt) == IF Pt.Inf THEN Pt ELSE Affine(Pt.X, 0 - Pt.Y)

neg(c, Pt) == IF Pt.Inf THEN Pt ELSE Affine(Pt.X, negM(Pt.Y, c.P))

\* add with one deviation: "skew" takes the chord's y from Q.X, "swallow" returns O for
\* P + O, "flat" returns O for every P + P
add_variant(c, P, Q, v) ==
  LET p == c.P IN
  IF P.Inf THEN [err |-> FALSE, pt |-> Q]
  ELSE IF Q.Inf THEN [err |-> FALSE, pt |-> IF v = "swallow" THEN InfPoint ELSE P]
  ELSE IF P.X = Q.X
  THEN IF mod(P.Y + Q.Y, p) = 0 \/ P.Y = 0 \/ v = "flat" THEN [err |-> FALSE, pt |-> InfPoint]
       ELSE LET inv == invM(mulM(2, P.Y, p), p)
                lam == mulM(addM(mulM(3, mulM(P.X, P.X, p), p), c.A, p), inv.v, p)
                xr == subM(subM(mulM(lam, lam, p), P.X, p), Q.X, p)
            IN [err |-> inv.err, pt |-> Affine(xr, subM(mulM(lam, subM(P.X, xr, p), p), P.Y, p))]
  ELSE LET inv == invM(subM(Q.X, P.X, p), p)
           lam == mulM(subM(Q.Y, P.Y, p), inv.v, p)
           xr == subM(subM(mulM(lam, lam, p), P.X, p), Q.X, p)
           from == IF v = "skew" THEN Q.X ELSE P.X
       IN [err |-> inv.err, pt |-> Affine(xr, subM(mulM(lam, subM(from, xr, p), p), P.Y, p))]

add_skew(c, P, Q) == add_variant(c, P, Q, "skew")

add_swallow(c, P, Q) == add_variant(c, P, Q, "swallow")

add_flat(c, P, Q) == add_variant(c, P, Q, "flat")

\* (Point, error)
add(c, P, Q) ==
  LET p == c.P IN
  IF P.Inf THEN [err |-> FALSE, pt |-> Q]
  ELSE IF Q.Inf THEN [err |-> FALSE, pt |-> P]
  ELSE IF P.X = Q.X
  THEN IF mod(P.Y + Q.Y, p) = 0 THEN [err |-> FALSE, pt |-> InfPoint]
       ELSE IF P.Y = 0 THEN [err |-> FALSE, pt |-> InfPoint]
       ELSE LET num == addM(mulM(3, mulM(P.X, P.X, p), p), c.A, p)
                den == mulM(2, P.Y, p)
                inv == invM(den, p)
            IN IF inv.err THEN [err |-> TRUE, pt |-> InfPoint]
               ELSE LET lam == mulM(num, inv.v, p)
                        xr == subM(subM(mulM(lam, lam, p), P.X, p), Q.X, p)
                        yr == subM(mulM(lam, subM(P.X, xr, p), p), P.Y, p)
                    IN [err |-> FALSE, pt |-> Affine(xr, yr)]
  ELSE LET num == subM(Q.Y, P.Y, p)
           den == subM(Q.X, P.X, p)
           inv == invM(den, p)
       IN IF inv.err THEN [err |-> TRUE, pt |-> InfPoint]
          ELSE LET lam == mulM(num, inv.v, p)
                   xr == subM(subM(mulM(lam, lam, p), P.X, p), Q.X, p)
                   yr == subM(mulM(lam, subM(P.X, xr, p), p), P.Y, p)
               IN [err |-> FALSE, pt |-> Affine(xr, yr)]

\* P is added to its negative instead of itself
double_viaNeg(c, P) == add(c, P, neg(c, P))

double(c, P) == add(c, P, P)

\* ---------------------------------------------------------------- lines on the torus
\* Line: [Vertical, M, C, V]; unset big.Int fields are 0
VLine(v) == [Vertical |-> TRUE, M |-> 0, C |-> 0, V |-> v]

MLine(m, cst) == [Vertical |-> FALSE, M |-> m, C |-> cst, V |-> 0]

\* the intercept is left out of the key
key_slope(L) ==
  IF L.Vertical THEN <<118, 58>> \o IntString(L.V)
  ELSE <<109, 58>> \o IntString(L.M)

\* "v:" + V  or  "m:" + M + "|c:" + C
key(L) ==
  IF L.Vertical THEN <<118, 58>> \o IntString(L.V)
  ELSE <<109, 58>> \o IntString(L.M) \o <<124, 99, 58>> \o IntString(L.C)

\* Q = <<>> (nil) for the tangent at P, <<Q>> for the secant; (Line, error)
lineThrough(c, P, Q) ==
  LET p == c.P IN
  IF Q = <<>> \/ (P.X = Q[1].X /\ mod(P.Y + Q[1].Y, p) # 0)
  THEN IF P.Y = 0 THEN [err |-> FALSE, L |-> VLine(P.X)]
       ELSE LET num == addM(mulM(3, mulM(P.X, P.X, p), p), c.A, p)
                den == mulM(2, P.Y, p)
                inv == invM(den, p)
            IN IF inv.err THEN [err |-> TRUE, L |-> VLine(0)]
               ELSE LET m == mulM(num, inv.v, p)
                    IN [err |-> FALSE, L |-> MLine(m, subM(P.Y, mulM(m, P.X, p), p))]
  ELSE IF P.X = Q[1].X /\ mod(P.Y + Q[1].Y, p) = 0
  THEN [err |-> FALSE, L |-> VLine(P.X)]
  ELSE LET num == subM(Q[1].Y, P.Y, p)
           den == subM(Q[1].X, P.X, p)
           inv == invM(den, p)
       IN IF inv.err THEN [err |-> TRUE, L |-> VLine(0)]
          ELSE LET m == mulM(num, inv.v, p)
               IN [err |-> FALSE, L |-> MLine(m, subM(P.Y, mulM(m, P.X, p), p))]

\* no vertical case: always the group sum, returned with the operands
thirdIntersection_sum(c, P, Q) ==
  LET s == add(c, P, IF Q = <<>> THEN P ELSE Q[1]) IN
  [err |-> s.err, R |-> s.pt, inters |-> IF Q = <<>> THEN <<P, s.pt>> ELSE <<P, Q[1], s.pt>>]

\* (R, intersections, error)
thirdIntersection(c, P, Q) ==
  IF Q = <<>>
  THEN LET d == double(c, P) IN
       IF d.err THEN [err |-> TRUE, R |-> InfPoint, inters |-> <<>>]
       ELSE IF d.pt.Inf THEN [err |-> FALSE, R |-> d.pt, inters |-> <<P, neg(c, P)>>]
       ELSE [err |-> FALSE, R |-> d.pt, inters |-> <<P, d.pt>>]
  ELSE IF P.X = Q[1].X /\ mod(P.Y + Q[1].Y, c.P) = 0
  THEN [err |-> FALSE, R |-> InfPoint, inters |-> <<P, Q[1]>>]
  ELSE LET s == add(c, P, Q[1]) IN
       IF s.err THEN [err |-> TRUE, R |-> InfPoint, inters |-> <<>>]
       ELSE [err |-> FALSE, R |-> s.pt, inters |-> <<P, Q[1], s.pt>>]

\* ---------------------------------------------------------------- explicit p x p grid
\* Go's int remainder (truncated towards zero)
GoRem(a, p) == IF a >= 0 THEN a % p ELSE 0 - ((0 - a) % p)

\* Grid: [p, found, excl]; a Bitset is the set of its set bit indices
newGrid(p) == [p |-> p, found |-> {}, excl |-> {}]

\* e.G of an engine without grid
NoGrid == [p |-> 0, found |-> {}, excl |-> {}]

idx(g, x, y) == y * g.p + x

markFound(g, x, y) == [g EXCEPT !.found = @ \cup {idx(g, x, y)}]

isExcluded(g, x, y) == idx(g, x, y) \in g.excl

isFound(g, x, y) == idx(g, x, y) \in g.found

\* fmt.Sprintf("%d|%d", x, y)
cellKey(x, y) == IntString(x) \o <<124>> \o IntString(y)

\* the line's lattice points as <<x, y>>, in the order of the rasterising loop
linePoints(g, L) ==
  IF L.Vertical
  THEN {<<GoRem(L.V, g.p), y>> : y \in 0..(g.p - 1)}
  ELSE {<<x, LET y == GoRem(GoRem(L.M, g.p) * x + GoRem(L.C, g.p), g.p)
              IN IF y < 0 THEN y + g.p ELSE y>> : x \in 0..(g.p - 1)}

\* the keep map is ignored
markLineExclusions_all(g, L, keep) ==
  [g EXCEPT !.excl = @ \cup {idx(g, c[1], c[2]) : c \in linePoints(g, L)}]

markLineExclusions(g, L, keep) ==
  [g EXCEPT !.excl = @ \cup {idx(g, c[1], c[2]) : c \in {d \in linePoints(g, L) : cellKey(d[1], d[2]) \notin keep}}]

\* ---------------------------------------------------------------- engine
pointKey(P) ==
  IF P.Inf THEN <<105, 110, 102>>
  ELSE IntString(P.X) \o <<124>> \o IntString(P.Y)

pairKey(P, Q) ==
  LET k1 == pointKey(P)
      k2 == pointKey(Q)
  IN IF StrLess(k1, k2) THEN k1 \o <<35>> \o k2 ELSE k2 \o <<35>> \o k1

\* int(P.X.Int64()) % p, made non-negative
gridCoord(v, p) == LET x == GoRem(v, p) IN IF x < 0 THEN x + p ELSE x

newEngine(c, useGrid, maxLines, countFirst) ==
  [C |-> c, UseGrid |-> useGrid, G |-> NoGrid, MaxLines |-> maxLines,
   CountFirst |-> countFirst, KnownCount |-> <<>>,
   found |-> <<>>, order |-> <<>>, indexOf |-> <<>>, deadX |-> {},
   linesDone |-> {}, secantDone |-> {}, tangentDone |-> {}]

\* m[k] = v on a Go map
mapPut(m, k, v) == [x \in (DOMAIN m) \cup {k} |-> IF x = k THEN v ELSE m[x]]

\* the new point is put in front of order instead of behind it
addFound_prepend(e, P) ==
  IF ~on(e.C, P) THEN [ok |-> FALSE, e |-> e]
  ELSE LET k == pointKey(P) IN
       IF k \in DOMAIN e.found THEN [ok |-> FALSE, e |-> e]
       ELSE LET e1 == [e EXCEPT !.found = mapPut(@, k, P)] IN
            IF P.Inf THEN [ok |-> TRUE, e |-> e1]
            ELSE LET e2 == [e1 EXCEPT !.indexOf = mapPut(@, k, Len(e.order)),
                                      !.order = <<P>> \o @]
                 IN IF e.UseGrid
                    THEN [ok |-> TRUE,
                          e |-> [e2 EXCEPT !.G = markFound(@, gridCoord(P.X, e.G.p), gridCoord(P.Y, e.G.p))]]
                    ELSE [ok |-> TRUE, e |-> e2]

\* indexOf counts from one
addFound_oneBased(e, P) ==
  IF ~on(e.C, P) THEN [ok |-> FALSE, e |-> e]
  ELSE IF pointKey(P) \in DOMAIN e.found THEN [ok |-> FALSE, e |-> e]
  ELSE IF P.Inf THEN [ok |-> TRUE, e |-> [e EXCEPT !.found = mapPut(@, pointKey(P), P)]]
  ELSE [ok |-> TRUE,
        e |-> [e EXCEPT !.found = mapPut(@, pointKey(P), P),
                        !.indexOf = mapPut(@, pointKey(P), Len(e.order) + 1),
                        !.order = Append(@, P),
                        !.G = IF e.UseGrid
                              THEN markFound(@, gridCoord(P.X, e.G.p), gridCoord(P.Y, e.G.p))
                              ELSE @]]

\* a known point is stored and appended once more
addFound_again(e, P) ==
  IF ~on(e.C, P) THEN [ok |-> FALSE, e |-> e]
  ELSE IF P.Inf THEN [ok |-> TRUE, e |-> [e EXCEPT !.found = mapPut(@, pointKey(P), P)]]
  ELSE [ok |-> TRUE,
        e |-> [e EXCEPT !.found = mapPut(@, pointKey(P), P),
                        !.indexOf = mapPut(@, pointKey(P), Len(e.order)),
                        !.order = Append(@, P),
                        !.G = IF e.UseGrid
                              THEN markFound(@, gridCoord(P.X, e.G.p), gridCoord(P.Y, e.G.p))
                              ELSE @]]

\* (engine after the call, returned bool)
addFound(e, P) ==
  IF ~on(e.C, P) THEN [ok |-> FALSE, e |-> e]
  ELSE LET k == pointKey(P) IN
       IF k \in DOMAIN e.found THEN [ok |-> FALSE, e |-> e]
       ELSE LET e1 == [e EXCEPT !.found = mapPut(@, k, P)] IN
            IF P.Inf THEN [ok |-> TRUE, e |-> e1]
            ELSE LET e2 == [e1 EXCEPT !.indexOf = mapPut(@, k, Len(e.order)),
                                      !.order = Append(@, P)]
                 IN IF e.UseGrid
                    THEN [ok |-> TRUE,
                          e |-> [e2 EXCEPT !.G = markFound(@, gridCoord(P.X, e.G.p), gridCoord(P.Y, e.G.p))]]
                    ELSE [ok |-> TRUE, e |-> e2]

\* for _, S := range inters { e.addFound(S) }
RECURSIVE addFoundAll(_, _)
addFoundAll(e, inters) ==
  IF inters = <<>> THEN e ELSE addFoundAll(addFound(e, Head(inters)).e, Tail(inters))

keepOf(e, inters) ==
  {cellKey(gridCoord(inters[n].X, e.G.p), gridCoord(inters[n].Y, e.G.p)) :
     n \in {m \in 1..Len(inters) : ~inters[m].Inf}}

\* if !R.Inf { e.addFound(e.C.neg(R)) }
addNegThird(e, R) == IF ~R.Inf THEN addFound(e, neg(e.C, R)).e ELSE e

\* if e.UseGrid { keep := ...; e.G.markLineExclusions(L, keep) }
excludeLine(e, L, inters) ==
  IF e.UseGrid THEN [e EXCEPT !.G = markLineExclusions(@, L, keepOf(e, inters))] ELSE e

\* the line key is not recorded
markLineDone_forget(e, L) == e

\* e.linesDone[lk] = true
markLineDone(e, L) == [e EXCEPT !.linesDone = @ \cup {key(L)}]

\* processLineFrom after its two derivations lt = lineThrough(..), ti = thirdIntersection(..):
\* (engine after the call, error, whether the line was new, and the line,
\*  third point and intersections that were computed)
processLine(e, lt, ti) ==
  IF lt.err
  THEN [err |-> TRUE, e |-> e, fresh |-> FALSE, L |-> lt.L, R |-> InfPoint, inters |-> <<>>]
  ELSE IF key(lt.L) \in e.linesDone
  THEN [err |-> FALSE, e |-> e, fresh |-> FALSE, L |-> lt.L, R |-> InfPoint, inters |-> <<>>]
  ELSE IF ti.err
  THEN [err |-> TRUE, e |-> e, fresh |-> FALSE, L |-> lt.L, R |-> InfPoint, inters |-> <<>>]
  ELSE [err |-> FALSE,
        e |-> markLineDone(excludeLine(addNegThird(addFoundAll(e, ti.inters), ti.R), lt.L, ti.inters), lt.L),
        fresh |-> TRUE, L |-> lt.L, R |-> ti.R, inters |-> ti.inters]

processLineFrom(e, P, Q) == processLine(e, lineThrough(e.C, P, Q), thirdIntersection(e.C, P, Q))

\* seedDraw with one deviation: "mark" marks a non-residue x dead, "first" returns the
\* first root whether it is found or not, "hasty" marks x dead once its first root is found
seedDraw_variant(e, x, v) ==
  LET p == e.C.P
      kx == IntString(x)
      retry == [ret |-> FALSE, P |-> InfPoint, e |-> e]
      dead == [ret |-> FALSE, P |-> InfPoint, e |-> [e EXCEPT !.deadX = @ \cup {kx}]]
      t == rhsAt(e.C, x)
      lg == legendre(t, p)
      r == sqrtModP(t, p)
  IN
  IF kx \in e.deadX THEN retry
  ELSE IF lg = 0 - 1 THEN (IF v = "mark" THEN dead ELSE retry)
  ELSE IF lg = 0
  THEN IF pointKey(Affine(x, 0)) \notin DOMAIN e.found
       THEN [ret |-> TRUE, P |-> Affine(x, 0), e |-> e]
       ELSE dead
  ELSE IF r.err THEN retry
  ELSE IF pointKey(Affine(x, r.v)) \notin DOMAIN e.found \/ v = "first"
  THEN [ret |-> TRUE, P |-> Affine(x, r.v), e |-> e]
  ELSE IF pointKey(Affine(x, negM(r.v, p))) \notin DOMAIN e.found /\ v # "hasty"
  THEN [ret |-> TRUE, P |-> Affine(x, negM(r.v, p)), e |-> e]
  ELSE dead

seedDraw_hasty(e, x) == seedDraw_variant(e, x, "hasty")

seedDraw_markNonResidue(e, x) == seedDraw_variant(e, x, "mark")

seedDraw_firstRoot(e, x) == seedDraw_variant(e, x, "first")

\* one iteration of findNextSeed's loop for the drawn x:
\* (engine after it, whether it returned, the point returned)
seedDraw(e, x) ==
  LET p == e.C.P
      kx == IntString(x)
      retry == [ret |-> FALSE, P |-> InfPoint, e |-> e]
      dead == [ret |-> FALSE, P |-> InfPoint, e |-> [e EXCEPT !.deadX = @ \cup {kx}]]
  IN
  IF kx \in e.deadX THEN retry
  ELSE LET t == rhsAt(e.C, x)
           lg == legendre(t, p)
       IN
       IF lg = 0 - 1 THEN retry
       ELSE IF lg = 0
       THEN IF pointKey(Affine(x, 0)) \notin DOMAIN e.found
            THEN [ret |-> TRUE, P |-> Affine(x, 0), e |-> e]
            ELSE dead
       ELSE LET r == sqrtModP(t, p) IN
            IF r.err THEN retry
            ELSE LET P1 == Affine(x, r.v)
                     P2 == Affine(x, negM(r.v, p))
                 IN IF pointKey(P1) \notin DOMAIN e.found THEN [ret |-> TRUE, P |-> P1, e |-> e]
                    ELSE IF pointKey(P2) \notin DOMAIN e.found THEN [ret |-> TRUE, P |-> P2, e |-> e]
                    ELSE dead

\* no point is returned for a root y = 0
tryX_nonzero(e, x) ==
  LET r == sqrtModP(rhsAt(e.C, x), e.C.P) IN
  IF legendre(rhsAt(e.C, x), e.C.P) = 1 /\ ~r.err
  THEN [ok |-> TRUE, P |-> Affine(x, r.v)]
  ELSE [ok |-> FALSE, P |-> InfPoint]

\* tryX of findNextSeedFromX: (Point, ok)
tryX(e, x) ==
  LET p == e.C.P
      t == rhsAt(e.C, x)
      lg == legendre(t, p)
  IN
  IF lg = 0 THEN [ok |-> TRUE, P |-> Affine(x, 0)]
  ELSE IF lg = 1
  THEN LET r == sqrtModP(t, p) IN
       IF ~r.err THEN [ok |-> TRUE, P |-> Affine(x, r.v)] ELSE [ok |-> FALSE, P |-> InfPoint]
  ELSE [ok |-> FALSE, P |-> InfPoint]

\* ---------------------------------------------------------------- counting
\* counts 1 for a residue instead of 2
RECURSIVE countFrom_single(_, _, _)
countFrom_single(c, x, cnt) ==
  IF x >= c.P THEN cnt
  ELSE LET lg == legendre(rhsAt(c, x), c.P) IN
       countFrom_single(c, x + 1, IF lg = 0 \/ lg = 1 THEN cnt + 1 ELSE cnt)

\* the loop of countLegendre from x on
RECURSIVE countFrom(_, _, _)
countFrom(c, x, cnt) ==
  IF x >= c.P THEN cnt
  ELSE LET lg == legendre(rhsAt(c, x), c.P) IN
       countFrom(c, x + 1, IF lg = 0 THEN cnt + 1 ELSE IF lg = 1 THEN cnt + 2 ELSE cnt)

\* the point at infinity is not counted
countLegendre_affine(c) == countFrom(c, 0, 0)

countLegendre(c) == countFrom(c, 0, 1)

finiteCount(e) == Cardinality({k \in DOMAIN e.found : ~e.found[k].Inf})

\* the comparison is <= instead of ==
isComplete_atMost(e) ==
  IF e.KnownCount = <<>> THEN FALSE
  ELSE finiteCount(e) <= e.KnownCount[1] - 1

isComplete(e) ==
  IF e.KnownCount = <<>> THEN FALSE
  ELSE finiteCount(e) = e.KnownCount[1] - 1

\* len(order) is compared with the count itself, the point at infinity not taken off
earlyStop_withInfinity(e) ==
  IF e.KnownCount = <<>> THEN FALSE
  ELSE Len(e.order) = e.KnownCount[1]

\* the early-stop test at the end of walkAndExclude's loop body
earlyStop(e) ==
  IF e.KnownCount = <<>> THEN FALSE
  ELSE Len(e.order) = e.KnownCount[1] - 1

\* ---------------------------------------------------------------- state
VARIABLES
  e,               \* the Engine
  seedX,           \* main: -seed_x (<<>> when not given)
  pc,              \* position in main / walkAndExclude / the seed searches
  i, j, processed, \* walkAndExclude: loop indices and the local counter
  tries,           \* retry counter of the running seed search
  linesProcessed,  \* main: linesProcessed
  ret,             \* where the running walkAndExclude returns to
  stop,            \* how the last walkAndExclude left its loop
  exhausted,       \* findNextSeed returned (Point{}, false)
  linesBefore,     \* len(e.linesDone) before the repeated walk
  last,            \* the most recent thirdIntersection call and its line
  \* ecscan (the brute-force scanner, a program of its own)
  scanArgs,        \* p, A, B, the resolved mode, the arithmetic path, -workers
  scanPc,          \* position of the main goroutine in enumerateU64 / enumerateBig
  sqrtT,           \* the sqrt table (<<>> on the fly)
  jobs, points,    \* the channels: [buf, closed]
  wg, wgW,         \* the WaitGroups: goroutines not yet Done
  worker,          \* per worker: where it blocks and its loop variables
  feedS,           \* the feeder's s
  fed,             \* history: the jobs sent so far
  out              \* the lines written through the textWriter

walkVars == <<e, seedX, pc, i, j, processed, tries, linesProcessed, ret, stop, exhausted, linesBefore, last>>

scanVars == <<scanArgs, scanPc, sqrtT, jobs, points, wg, wgW, worker, feedS, fed, out>>

vars == <<walkVars, scanVars>>

\* ectorus runs: no scanner
NoScan ==
  /\ scanArgs = <<>> /\ scanPc = "off" /\ sqrtT = <<>>
  /\ jobs = <<>> /\ points = <<>>
  /\ wg = 0 /\ wgW = 0
  /\ worker = <<>>
  /\ feedS = 0 /\ fed = <<>> /\ out = <<>>

\* -grid is refused above this p
GridLimit == 10000

\* no derivation made yet; tangents / secants count the calls of processLineFrom per
\* point key / pair key, thirds and rasters the thirdIntersection computations and the
\* grid rasterisations per line key
NoCall ==
  [op |-> "none", called |-> FALSE, P |-> InfPoint, Q |-> <<>>, L |-> VLine(0), R |-> InfPoint,
   inters |-> <<>>, tangents |-> <<>>, secants |-> <<>>, thirds |-> <<>>, rasters |-> <<>>]

\* main() up to the construction of the curve: flags parsed, p > 3
Init ==
  /\ \E cfg \in Configs :
       /\ e = newEngine([P |-> cfg[1][1], A |-> mod(cfg[1][2], cfg[1][1]), B |-> mod(cfg[1][3], cfg[1][1])],
                        cfg[2], cfg[3], cfg[4])
       /\ seedX = cfg[5]
  /\ NoScan
  /\ pc = "start"
  /\ i = 0 /\ j = 0 /\ processed = 0 /\ tries = 0
  /\ linesProcessed = 0
  /\ ret = "walked"
  /\ stop = "none"
  /\ exhausted = FALSE
  /\ linesBefore = 0
  /\ last = NoCall

\* ---------------------------------------------------------------- main: checks
RejectSingular ==
  /\ pc = "start"
  /\ isSingular(e.C)
  /\ pc' = "rejected"
  /\ UNCHANGED scanVars
  /\ UNCHANGED <<e, seedX, i, j, processed, tries, linesProcessed, ret, stop, exhausted, linesBefore, last>>

\* -grid with p above the limit: warning, os.Exit(2)
RejectGrid ==
  /\ pc = "start"
  /\ ~isSingular(e.C)
  /\ e.UseGrid /\ e.C.P > GridLimit
  /\ pc' = "rejected"
  /\ UNCHANGED scanVars
  /\ UNCHANGED <<e, seedX, i, j, processed, tries, linesProcessed, ret, stop, exhausted, linesBefore, last>>

CreateEngine ==
  /\ pc = "start"
  /\ ~isSingular(e.C)
  /\ ~(e.UseGrid /\ e.C.P > GridLimit)
  /\ e' = [e EXCEPT !.G = IF e.UseGrid THEN newGrid(e.C.P) ELSE NoGrid,
                    !.KnownCount = IF e.CountFirst THEN <<countLegendre(e.C)>> ELSE <<>>]
  /\ pc' = "seed"
  /\ UNCHANGED scanVars
  /\ UNCHANGED <<seedX, i, j, processed, tries, linesProcessed, ret, stop, exhausted, linesBefore, last>>

\* ---------------------------------------------------------------- walkAndExclude
\* the call eng.walkAndExclude(eng.MaxLines) on engine en, returning to r
BeginWalk(en, r) ==
  /\ e' = en
  /\ pc' = "walk"
  /\ i' = 0 /\ j' = 0 /\ processed' = 0
  /\ ret' = r
  /\ stop' = "none"

\* for-condition false: the loop ran off the end of order
WalkEnd ==
  /\ pc = "walk"
  /\ ~(i < Len(e.order))
  /\ pc' = ret
  /\ stop' = "end"
  /\ UNCHANGED scanVars
  /\ UNCHANGED <<e, seedX, i, j, processed, tries, linesProcessed, ret, exhausted, linesBefore, last>>

\* break at the top of the loop body
WalkCapBreak ==
  /\ pc = "walk"
  /\ i < Len(e.order)
  /\ e.MaxLines > 0 /\ processed >= e.MaxLines
  /\ pc' = ret
  /\ stop' = "cap"
  /\ UNCHANGED scanVars
  /\ UNCHANGED <<e, seedX, i, j, processed, tries, linesProcessed, ret, exhausted, linesBefore, last>>

WalkBody ==
  /\ pc = "walk"
  /\ i < Len(e.order)
  /\ ~(e.MaxLines > 0 /\ processed >= e.MaxLines)
  /\ pc' = "tangent"
  /\ UNCHANGED scanVars
  /\ UNCHANGED <<e, seedX, i, j, processed, tries, linesProcessed, ret, stop, exhausted, linesBefore, last>>

\* one more occurrence of k
bump(m, k) == mapPut(m, k, IF k \in DOMAIN m THEN m[k] + 1 ELSE 1)

\* the record of the calls after processLineFrom(P, Q) has returned r without error
lastOf(r, P, Q) ==
  [op |-> "processLineFrom",
   called |-> IF r.fresh THEN TRUE ELSE last.called,
   P |-> IF r.fresh THEN P ELSE last.P,
   Q |-> IF r.fresh THEN Q ELSE last.Q,
   L |-> IF r.fresh THEN r.L ELSE last.L,
   R |-> IF r.fresh THEN r.R ELSE last.R,
   inters |-> IF r.fresh THEN r.inters ELSE last.inters,
   tangents |-> IF Q = <<>> THEN bump(last.tangents, pointKey(P)) ELSE last.tangents,
   secants |-> IF Q # <<>> THEN bump(last.secants, pairKey(P, Q[1])) ELSE last.secants,
   thirds |-> IF r.fresh THEN bump(last.thirds, key(r.L)) ELSE last.thirds,
   rasters |-> IF r.fresh /\ e.UseGrid THEN bump(last.rasters, key(r.L)) ELSE last.rasters]

\* the tangent at P was not done: r is what processLineFrom(P, nil) gave
TangentNew(P, r) ==
  IF r.err
  THEN /\ pc' = "died"
       /\ UNCHANGED <<e, processed, last>>
  ELSE /\ e' = [r.e EXCEPT !.tangentDone = @ \cup {pointKey(P)}]
       /\ processed' = processed + 1
       /\ last' = lastOf(r, P, <<>>)
       /\ pc' = "secant"

\* tangent at P = order[i], once
Tangent ==
  /\ pc = "tangent"
  /\ IF pointKey(e.order[i + 1]) \notin e.tangentDone
     THEN TangentNew(e.order[i + 1], processLineFrom(e, e.order[i + 1], <<>>))
     ELSE /\ pc' = "secant"
          /\ UNCHANGED <<e, processed, last>>
  /\ j' = 0
  /\ UNCHANGED scanVars
  /\ UNCHANGED <<seedX, i, tries, linesProcessed, ret, stop, exhausted, linesBefore>>

\* one iteration of the secant loop: pair already done
SecantSkip ==
  /\ pc = "secant"
  /\ j < i
  /\ IF e.order[j + 1].Inf THEN TRUE
     ELSE pairKey(e.order[i + 1], e.order[j + 1]) \in e.secantDone
  /\ j' = j + 1
  /\ UNCHANGED scanVars
  /\ UNCHANGED <<e, seedX, pc, i, processed, tries, linesProcessed, ret, stop, exhausted, linesBefore, last>>

\* the pair P, Q was not done: r is what processLineFrom(P, &Q) gave
SecantNew(P, Q, r) ==
  IF r.err
  THEN /\ pc' = "died"
       /\ UNCHANGED <<e, processed, last, j>>
  ELSE /\ e' = [r.e EXCEPT !.secantDone = @ \cup {pairKey(P, Q)}]
       /\ processed' = processed + 1
       /\ last' = lastOf(r, P, <<Q>>)
       /\ IF e.MaxLines > 0 /\ processed + 1 >= e.MaxLines
          THEN pc' = "early" /\ j' = j
          ELSE pc' = "secant" /\ j' = j + 1

\* one iteration of the secant loop: secant through order[i], order[j]
Secant ==
  /\ pc = "secant"
  /\ j < i
  /\ ~e.order[j + 1].Inf
  /\ pairKey(e.order[i + 1], e.order[j + 1]) \notin e.secantDone
  /\ SecantNew(e.order[i + 1], e.order[j + 1], processLineFrom(e, e.order[i + 1], <<e.order[j + 1]>>))
  /\ UNCHANGED scanVars
  /\ UNCHANGED <<seedX, i, tries, linesProcessed, ret, stop, exhausted, linesBefore>>

SecantEnd ==
  /\ pc = "secant"
  /\ ~(j < i)
  /\ pc' = "early"
  /\ UNCHANGED scanVars
  /\ UNCHANGED <<e, seedX, i, j, processed, tries, linesProcessed, ret, stop, exhausted, linesBefore, last>>

\* early stop if the point count is known
EarlyStop ==
  /\ pc = "early"
  /\ earlyStop(e)
  /\ pc' = ret
  /\ stop' = "count"
  /\ UNCHANGED scanVars
  /\ UNCHANGED <<e, seedX, i, j, processed, tries, linesProcessed, ret, exhausted, linesBefore, last>>

\* the index is not advanced
WalkNext_stay ==
  /\ pc = "early"
  /\ ~earlyStop(e)
  /\ i' = i
  /\ pc' = "walk"
  /\ UNCHANGED scanVars
  /\ UNCHANGED <<e, seedX, j, processed, tries, linesProcessed, ret, stop, exhausted, linesBefore, last>>

\* every other point is passed over
WalkNext_skip ==
  /\ pc = "early"
  /\ ~earlyStop(e)
  /\ i' = i + 2
  /\ pc' = "walk"
  /\ UNCHANGED scanVars
  /\ UNCHANGED <<e, seedX, j, processed, tries, linesProcessed, ret, stop, exhausted, linesBefore, last>>

WalkNext ==
  /\ pc = "early"
  /\ ~earlyStop(e)
  /\ i' = i + 1
  /\ pc' = "walk"
  /\ UNCHANGED scanVars
  /\ UNCHANGED <<e, seedX, j, processed, tries, linesProcessed, ret, stop, exhausted, linesBefore, last>>

\* ---------------------------------------------------------------- main: seeding
\* findNextSeedFromX: the preferred x gives a point
SeedFromX ==
  /\ pc = "seed"
  /\ seedX # <<>>
  /\ tryX(e, mod(seedX[1], e.C.P)).ok
  /\ BeginWalk(addFound(e, tryX(e, mod(seedX[1], e.C.P)).P).e, "walked")
  /\ UNCHANGED scanVars
  /\ UNCHANGED <<seedX, tries, linesProcessed, exhausted, linesBefore, last>>

\* findNextSeedFromX: no preferred x, or it gives no point
SeedFallThrough ==
  /\ pc = "seed"
  /\ IF seedX = <<>> THEN TRUE ELSE ~tryX(e, mod(seedX[1], e.C.P)).ok
  /\ pc' = "seed_rand"
  /\ tries' = 0
  /\ UNCHANGED scanVars
  /\ UNCHANGED <<e, seedX, i, j, processed, linesProcessed, ret, stop, exhausted, linesBefore, last>>

\* r is what tryX gave for the drawn x
SeedTried(r) ==
  IF r.ok
  THEN /\ BeginWalk(addFound(e, r.P).e, "walked")
       /\ UNCHANGED tries
  ELSE /\ tries' = tries + 1
       /\ UNCHANGED <<e, pc, i, j, processed, ret, stop>>

\* findNextSeedFromX: one random draw
SeedRandom ==
  /\ pc = "seed_rand"
  /\ tries < MaxTries
  /\ \E x \in 0..(e.C.P - 1) : SeedTried(tryX(e, x))
  /\ UNCHANGED scanVars
  /\ UNCHANGED <<seedX, linesProcessed, exhausted, linesBefore, last>>

\* dieStr("failed to find a seed point on E")
SeedFail ==
  /\ pc = "seed_rand"
  /\ ~(tries < MaxTries)
  /\ pc' = "failed"
  /\ UNCHANGED scanVars
  /\ UNCHANGED <<e, seedX, i, j, processed, tries, linesProcessed, ret, stop, exhausted, linesBefore, last>>

\* ---------------------------------------------------------------- main: re-seed loop
\* loop condition true: call findNextSeed
MainReseed ==
  /\ pc = "walked"
  /\ e.KnownCount # <<>> /\ ~isComplete(e)
  /\ linesProcessed' = Cardinality(e.linesDone)
  /\ pc' = "reseed"
  /\ tries' = 0
  /\ UNCHANGED scanVars
  /\ UNCHANGED <<e, seedX, i, j, processed, ret, stop, exhausted, linesBefore, last>>

\* loop condition false: collate the output
MainDone ==
  /\ pc = "walked"
  /\ ~(e.KnownCount # <<>> /\ ~isComplete(e))
  /\ linesProcessed' = Cardinality(e.linesDone)
  /\ pc' = "done"
  /\ UNCHANGED scanVars
  /\ UNCHANGED <<e, seedX, i, j, processed, tries, ret, stop, exhausted, linesBefore, last>>

\* d is what one iteration of findNextSeed gave; main adds a returned point and walks
ReseedDrawn(d) ==
  IF d.ret
  THEN /\ BeginWalk(addFound(d.e, d.P).e, "walked")
       /\ UNCHANGED tries
  ELSE /\ e' = d.e
       /\ tries' = tries + 1
       /\ UNCHANGED <<pc, i, j, processed, ret, stop>>

\* findNextSeed: one draw
ReseedDraw ==
  /\ pc = "reseed"
  /\ tries < MaxTries
  /\ \E x \in 0..(e.C.P - 1) : ReseedDrawn(seedDraw(e, x))
  /\ UNCHANGED scanVars
  /\ UNCHANGED <<seedX, linesProcessed, exhausted, linesBefore, last>>

\* findNextSeed returned false: break, collate the output
ReseedFail ==
  /\ pc = "reseed"
  /\ ~(tries < MaxTries)
  /\ exhausted' = TRUE
  /\ pc' = "done"
  /\ UNCHANGED scanVars
  /\ UNCHANGED <<e, seedX, i, j, processed, tries, linesProcessed, ret, stop, linesBefore, last>>

\* ---------------------------------------------------------------- a second walk
\* walkAndExclude called again with no point added in between
WalkAgain ==
  /\ pc = "walked"
  /\ linesBefore' = Cardinality(e.linesDone)
  /\ BeginWalk(e, "rewalked")
  /\ UNCHANGED scanVars
  /\ UNCHANGED <<seedX, tries, linesProcessed, exhausted, last>>

Walk == WalkEnd \/ WalkCapBreak \/ WalkBody \/ Tangent \/ SecantSkip \/ Secant \/ SecantEnd \/ EarlyStop \/ WalkNext

Next ==
  \/ RejectSingular \/ RejectGrid \/ CreateEngine
  \/ SeedFromX \/ SeedFallThrough \/ SeedRandom \/ SeedFail
  \/ Walk
  \/ MainReseed \/ MainDone \/ ReseedDraw \/ ReseedFail

Spec == Init /\ [][Next]_vars

NextTwice == Next \/ WalkAgain

SpecTwice == Init /\ [][NextTwice]_vars

\* ---------------------------------------------------------------- properties
\* the affine solutions of y^2 = x^3 + A x + B over F_p, as <<x, y>>
CurvePoints(c) ==
  {xy \in (0..(c.P - 1)) \X (0..(c.P - 1)) :
     (xy[2] * xy[2]) % c.P = (xy[1] * xy[1] * xy[1] + c.A * xy[1] + c.B) % c.P}

IsCurvePoint(c, Pt) == ~Pt.Inf /\ <<Pt.X, Pt.Y>> \in CurvePoints(c)

FoundPoints == {e.found[k] : k \in DOMAIN e.found}

OrderPoints == {e.order[n] : n \in 1..Len(e.order)}

\* C1: every point stored in found and in order is affine, has x, y in [0,p)
\* and satisfies the curve equation
C1_FoundOnCurve ==
  /\ \A Pt \in FoundPoints : IsCurvePoint(e.C, Pt)
  /\ \A Pt \in OrderPoints : IsCurvePoint(e.C, Pt)

\* a walk has recorded the points of a tangent and of a secant, among them a negated third point
C1_Witness ==
  /\ Len(e.order) >= 4
  /\ e.tangentDone # {}
  /\ e.secantDone # {}
  /\ last.called /\ ~last.R.Inf /\ pointKey(neg(e.C, last.R)) \in DOMAIN e.found

\* C2: in grid mode no lattice cell that satisfies the curve equation is marked EXCLUDED
C2_NoCurvePointExcluded ==
  e.UseGrid =>
    \A k \in e.G.excl :
      LET x == k % e.G.p
          y == k \div e.G.p
      IN ~(isExcluded(e.G, x, y) /\ (y * y) % e.C.P = (x * x * x + e.C.A * x + e.C.B) % e.C.P)

\* Pt lies on the lattice line L
OnLine(c, L, Pt) ==
  IF L.Vertical THEN Pt.X = L.V
  ELSE Pt.Y = (L.M * Pt.X + L.C) % c.P

\* C3: every point of the intersections returned by thirdIntersection(P, Q) is on the curve
\* and on the line returned by lineThrough(P, Q), and so is an affine third point R
C3_IntersectionsOnLine ==
  last.called =>
    /\ \A n \in 1..Len(last.inters) :
         IsCurvePoint(e.C, last.inters[n]) /\ OnLine(e.C, last.L, last.inters[n])
    /\ ~last.R.Inf => OnLine(e.C, last.L, last.R)

\* C4: walk, then re-seed and walk while not complete: when the loop has ended without a
\* failed seed search, isComplete holds and found has exactly the N-1 affine points
\* (N = 12 and 11 points for y^2 = x^3 + 1 over F_11 seeded at (0,1))
C4_RunEndsComplete ==
  (pc = "done" /\ e.KnownCount # <<>> /\ ~exhausted) =>
     /\ isComplete(e)
     /\ Cardinality(DOMAIN e.found) = Cardinality(CurvePoints(e.C))
     /\ (e.C = [P |-> 11, A |-> 0, B |-> 1] =>
           e.KnownCount = <<12>> /\ Cardinality(DOMAIN e.found) = 11)

\* the instance has ended complete after at least one re-seeding
C4_Witness ==
  /\ pc = "done" /\ ~exhausted
  /\ e.C = [P |-> 11, A |-> 0, B |-> 1]
  /\ e.order[1] = Affine(0, 1)
  /\ Cardinality(DOMAIN e.found) = 11
  /\ linesProcessed > 3

\* C5: whenever isComplete() is true the affine points in found are exactly the affine
\* points of the curve; with no count target isComplete() is false
C5_CompleteIsExact ==
  /\ isComplete(e) => {<<Pt.X, Pt.Y>> : Pt \in {Q \in FoundPoints : ~Q.Inf}} = CurvePoints(e.C)
  /\ ~e.CountFirst => ~isComplete(e)

\* a counted run is complete
C5_Witness == isComplete(e) /\ e.CountFirst /\ Len(e.order) >= 3

\* C6: a second walkAndExclude right after a first one, with no point added in between,
\* does not increase the size of linesDone
C6_SecondWalkAddsNoLine ==
  pc = "rewalked" => Cardinality(e.linesDone) = linesBefore

\* C7: with a line cap c > 0 the number of lines processed never exceeds c
C7_LinesWithinCap ==
  e.MaxLines > 0 =>
    /\ Cardinality(e.linesDone) <= e.MaxLines
    /\ linesProcessed <= e.MaxLines

\* C8: once a walk has stopped at the line cap the run halts: no seed is searched and
\* no line is processed any more
C8_CappedIsTerminal ==
  [][(pc = "walked" /\ stop = "cap") => (pc' = "done" /\ e' = e)]_vars

\* |order| = N-1 with N known
CountReached == e.KnownCount # <<>> /\ Len(e.order) = e.KnownCount[1] - 1

\* C9: once |order| = N-1 has been reached after a tangent or a secant of the current
\* point, no further tangent or secant is processed: linesDone, tangentDone and secantDone
\* do not change any more
C9_StopsAtCount ==
  [][(CountReached /\ pc \in {"secant", "early"}) =>
        /\ e'.linesDone = e.linesDone
        /\ e'.tangentDone = e.tangentDone
        /\ e'.secantDone = e.secantDone]_vars

\* C9 as amended: once |order| = N-1, the walk does not go on to another point and no
\* seed is searched: the index i stays where it is, lines are processed for order[i] only
C9_StopsAfterCurrentPoint ==
  [][CountReached =>
        /\ i' = i
        /\ pc' \notin {"reseed", "seed_rand"}
        /\ (e'.linesDone # e.linesDone => pc \in {"tangent", "secant"})]_vars

\* the count was reached in the middle of a walk, which then left by the early stop
C9_Witness ==
  /\ pc = "walked" /\ stop = "count"
  /\ i >= 1 /\ i + 1 < Len(e.order)

\* m extends the Go map n: same keys and values, maybe more
MapGrows(m, n) == DOMAIN m \subseteq DOMAIN n /\ \A k \in DOMAIN m : n[k] = m[k]

\* C10: found, linesDone, tangentDone, secantDone, deadX and order only grow: every key
\* stays, with its value and (order) at its index
C10_OnlyGrow ==
  [][/\ MapGrows(e.found, e'.found)
     /\ e.linesDone \subseteq e'.linesDone
     /\ e.tangentDone \subseteq e'.tangentDone
     /\ e.secantDone \subseteq e'.secantDone
     /\ e.deadX \subseteq e'.deadX
     /\ Len(e.order) <= Len(e'.order)
     /\ \A n \in 1..Len(e.order) : e'.order[n] = e.order[n]]_vars

\* all six collections have grown
C10_Witness ==
  /\ Len(e.order) >= 3
  /\ Cardinality(e.linesDone) >= 2
  /\ e.tangentDone # {} /\ e.secantDone # {} /\ e.deadX # {}

\* C11: no repeated work over a whole run: the third intersection of a line key is
\* computed, and the line rasterised on the grid, at most once; processLineFrom is called
\* at most once for the tangent of a point and at most once for an unordered pair
C11_NoRepeatedWork ==
  /\ \A k \in DOMAIN last.thirds : last.thirds[k] <= 1
  /\ \A k \in DOMAIN last.rasters : last.rasters[k] <= 1
  /\ \A k \in DOMAIN last.tangents : last.tangents[k] <= 1
  /\ \A k \in DOMAIN last.secants : last.secants[k] <= 1

\* a walk after a re-seeding has processed new lines on the grid, and some calls of
\* processLineFrom met a line that was already done
C11_Witness ==
  /\ pc = "walked" /\ linesProcessed > 0
  /\ Cardinality(e.linesDone) > linesProcessed
  /\ e.UseGrid /\ DOMAIN last.rasters = e.linesDone
  /\ Cardinality(DOMAIN last.tangents) + Cardinality(DOMAIN last.secants)
       > Cardinality(DOMAIN last.thirds)

\* a call of walkAndExclude is running
InWalk == pc \in {"walk", "tangent", "secant", "early"}

\* at most two affine points of the curve over each x: no more points can enter order
NPoints == 2 * e.C.P

\* position of the running walk in its loop nest: point index i, then the step within
\* the iteration (loop head, tangent, secant with index j, early-stop test)
walkRank ==
  i * (NPoints + 4)
    + (IF pc = "walk" THEN 0
       ELSE IF pc = "tangent" THEN 1
       ELSE IF pc = "secant" THEN 2 + j
       ELSE NPoints + 3)

\* C12: every call of walkAndExclude terminates although order grows under the loop:
\* while a walk runs its indices stay inside order (the loop body never indexes past the
\* end), every step moves it strictly forward in its loop nest, and its position is
\* bounded because order holds distinct curve points
C12_WalkTerminates ==
  [][InWalk =>
       /\ j <= i /\ i <= Len(e.order) /\ Len(e.order) <= NPoints
       /\ (pc # "walk" => i < Len(e.order))
       /\ walkRank <= (NPoints + 1) * (NPoints + 4)
       /\ (InWalk' => walkRank' > walkRank)]_vars

\* a walk without line cap and without count target, started from one seed, has run off
\* the end of an order that grew while it was iterated
C12_Witness ==
  /\ pc = "walked" /\ stop = "end"
  /\ e.MaxLines = 0 /\ e.KnownCount = <<>>
  /\ Len(e.order) >= 4 /\ i = Len(e.order)

\* ---------------------------------------------------------------- the derivations on drawn inputs
\* the group law, the line derivations and the grid marking applied to inputs drawn from
\* the points of a non-singular curve; last holds the call and what it returned

\* largest keep map handed to markLineExclusions
MaxKeep == 2

\* the points of the curve, the identity included, coordinates reduced
PointsOf(c) == {InfPoint} \cup {Affine(xy[1], xy[2]) : xy \in CurvePoints(c)}

AffineOf(c) == {Pt \in PointsOf(c) : ~Pt.Inf}

\* the curves drawn, singular ones among them
LawCurves == Small \cup {<<7, 0, 1>>, <<7, 3, 0>>, <<11, 0, 1>>}

InitLaw ==
  /\ \E cv \in LawCurves :
       e = [newEngine([P |-> cv[1], A |-> mod(cv[2], cv[1]), B |-> mod(cv[3], cv[1])], TRUE, 0, TRUE)
              EXCEPT !.G = newGrid(cv[1])]
  /\ seedX = <<>>
  /\ NoScan
  /\ pc = "law"
  /\ i = 0 /\ j = 0 /\ processed = 0 /\ tries = 0
  /\ linesProcessed = 0
  /\ ret = "walked"
  /\ stop = "none"
  /\ exhausted = FALSE
  /\ linesBefore = 0
  /\ last = NoCall

\* no call made yet on the drawn curve
LawFresh == pc = "law" /\ last = NoCall

\* ... and the curve is non-singular, as the group law and the line derivations need
LawReady == LawFresh /\ ~isSingular(e.C)

\* one call, recorded in last; nothing else changes
LawCall(r) ==
  /\ last' = r
  /\ UNCHANGED scanVars
  /\ UNCHANGED <<e, seedX, pc, i, j, processed, tries, linesProcessed, ret, stop, exhausted, linesBefore>>

\* add(P, Q) and add(Q, P)
LawAdd ==
  /\ LawReady
  /\ \E P \in PointsOf(e.C), Q \in PointsOf(e.C) :
       LawCall([op |-> "add", P |-> P, Q |-> Q, pq |-> add(e.C, P, Q), qp |-> add(e.C, Q, P)])

\* add(x, y) on the result x.pt of an earlier add, its error handed on
addTo(c, x, y) == IF x.err \/ y.err THEN [err |-> TRUE, pt |-> InfPoint] ELSE add(c, x.pt, y.pt)

Ok(Pt) == [err |-> FALSE, pt |-> Pt]

\* add(add(P, Q), R) and add(P, add(Q, R))
LawAssoc ==
  /\ LawReady
  /\ \E P \in PointsOf(e.C), Q \in PointsOf(e.C), R \in PointsOf(e.C) :
       LawCall([op |-> "assoc", P |-> P, Q |-> Q, R |-> R,
                left |-> addTo(e.C, add(e.C, P, Q), Ok(R)),
                right |-> addTo(e.C, Ok(P), add(e.C, Q, R))])

\* neg(P), neg(neg(P)), add(P, O), add(O, P) and add(P, neg(P))
LawNeg ==
  /\ LawReady
  /\ \E P \in PointsOf(e.C) :
       LawCall([op |-> "neg", P |-> P, n |-> neg(e.C, P), nn |-> neg(e.C, neg(e.C, P)),
                po |-> add(e.C, P, InfPoint), op_ |-> add(e.C, InfPoint, P),
                pn |-> add(e.C, P, neg(e.C, P))])

\* double(P) and lineThrough(P, nil)
LawTangent ==
  /\ LawReady
  /\ \E P \in AffineOf(e.C) :
       LawCall([op |-> "tangent", P |-> P, d |-> double(e.C, P), lt |-> lineThrough(e.C, P, <<>>)])

\* the tangent at P (Q = <<>>) or the secant through P and another point Q
Constructions(c) ==
  {<<P, Q>> \in AffineOf(c) \X Opt(AffineOf(c)) : Q # <<P>>}

\* two constructions of a line: lineThrough and thirdIntersection on each
LawLines ==
  /\ LawReady
  /\ \E c1 \in Constructions(e.C), c2 \in Constructions(e.C) :
       LawCall([op |-> "lines", P |-> c1[1], Q |-> c1[2], P2 |-> c2[1], Q2 |-> c2[2],
                lt |-> lineThrough(e.C, c1[1], c1[2]),
                ti |-> thirdIntersection(e.C, c1[1], c1[2]),
                lt2 |-> lineThrough(e.C, c2[1], c2[2])])

\* the lines of the torus, coefficients reduced
Lines(p) == {VLine(v) : v \in 0..(p - 1)} \cup {MLine(m, c) : m \in 0..(p - 1), c \in 0..(p - 1)}

\* keep maps: the cells of at most MaxKeep curve points
Keeps(c) ==
  {{cellKey(Pt.X, Pt.Y) : Pt \in S} : S \in {T \in SUBSET AffineOf(c) : Cardinality(T) <= MaxKeep}}

\* grids to mark on: fresh, with the curve points FOUND, and with an earlier line excluded
Grids(c) ==
  LET fresh == newGrid(c.P)
      seen == [fresh EXCEPT !.found = {idx(fresh, Pt.X, Pt.Y) : Pt \in AffineOf(c)}]
  IN {fresh, seen, [seen EXCEPT !.excl = {idx(fresh, x, x) : x \in 0..(c.P - 1)}]}

\* g.markLineExclusions(L, keep)
LawMark ==
  /\ LawReady
  /\ \E g \in Grids(e.C), L \in Lines(e.C.P), keep \in Keeps(e.C) :
       LawCall([op |-> "mark", before |-> g, L |-> L, keep |-> keep,
                after |-> markLineExclusions(g, L, keep)])

\* the odd primes the field functions are applied to: both classes mod 4, and p - 1
\* with one, two and four factors 2
OddPrimes == {3, 5, 7, 11, 13, 17}

\* arguments a of legendre and sqrtModP: negative, reduced, and above p
FieldInputs(p) == (0 - p)..(2 * p)

\* legendre(a, p)
LawLegendre ==
  /\ LawFresh
  /\ \E p \in OddPrimes : \E a \in FieldInputs(p) :
       LawCall([op |-> "legendre", p |-> p, a |-> a, lg |-> legendre(a, p)])

\* sqrtModP(a, p)
LawSqrt ==
  /\ LawFresh
  /\ \E p \in OddPrimes : \E a \in FieldInputs(p) :
       LawCall([op |-> "sqrt", p |-> p, a |-> a, r |-> sqrtModP(a, p)])

\* countLegendre(curve), singular curves included
LawCount ==
  /\ LawFresh
  /\ LawCall([op |-> "count", n |-> countLegendre(e.C)])

NextLaw ==
  \/ LawAdd \/ LawAssoc \/ LawNeg \/ LawTangent \/ LawLines \/ LawMark
  \/ LawLegendre \/ LawSqrt \/ LawCount

SpecLaw == InitLaw /\ [][NextLaw]_vars

\* C13: the group law is commutative: add(P, Q) and add(Q, P) return the same point
\* without error, for all points of a non-singular curve, the identity included
C13_AddCommutes ==
  (pc = "law" /\ last.op = "add") =>
     /\ ~last.pq.err /\ ~last.qp.err
     /\ last.pq.pt = last.qp.pt

\* two affine points with different x were added to an affine sum
C13_Witness ==
  /\ pc = "law" /\ last.op = "add"
  /\ ~last.P.Inf /\ ~last.Q.Inf /\ last.P.X # last.Q.X
  /\ ~last.pq.pt.Inf /\ last.pq.pt = last.qp.pt

\* C14: the group law is associative: add(add(P, Q), R) equals add(P, add(Q, R)) for all
\* points of a non-singular curve (identity, equal and mutually inverse points included)
C14_AddAssociative ==
  (pc = "law" /\ last.op = "assoc") =>
     /\ ~last.left.err /\ ~last.right.err
     /\ last.left.pt = last.right.pt

\* a doubling inside: P = Q affine, R another affine point, the sum affine
C14_Witness ==
  /\ pc = "law" /\ last.op = "assoc"
  /\ ~last.P.Inf /\ last.P = last.Q /\ last.P.Y # 0
  /\ ~last.R.Inf /\ last.R.X # last.P.X
  /\ ~last.left.pt.Inf /\ last.left.pt = last.right.pt

\* C15: add(P, O) and add(O, P) return P unchanged and add(P, neg(P)) returns the identity
C15_IdentityAndInverse ==
  (pc = "law" /\ last.op = "neg") =>
     /\ ~last.po.err /\ last.po.pt = last.P
     /\ ~last.op_.err /\ last.op_.pt = last.P
     /\ ~last.pn.err /\ last.pn.pt.Inf

\* an affine point with y # 0 met the identity and its inverse
C15_Witness ==
  /\ pc = "law" /\ last.op = "neg"
  /\ ~last.P.Inf /\ last.P.Y # 0
  /\ last.po.pt = last.P /\ last.pn.pt.Inf

\* C16: neg(neg(P)) = P; neg(P) has the same x and the y-coordinate -y mod p in [0,p);
\* neg(P) is on the curve; the identity is its own negative
C16_NegInvolution ==
  (pc = "law" /\ last.op = "neg") =>
     /\ last.nn = last.P
     /\ last.P.Inf => last.n.Inf
     /\ ~last.P.Inf =>
          /\ ~last.n.Inf
          /\ last.n.X = last.P.X
          /\ last.n.Y \in 0..(e.C.P - 1)
          /\ (last.n.Y + last.P.Y) % e.C.P = 0
          /\ IsCurvePoint(e.C, last.n)

\* a point with y # 0 was negated to a different point
C16_Witness ==
  /\ pc = "law" /\ last.op = "neg"
  /\ ~last.P.Inf /\ last.P.Y # 0
  /\ last.n # last.P /\ last.nn = last.P

\* C17: for an on-curve affine P, double(P) is the identity exactly when y_P = 0, and the
\* tangent lineThrough(P, nil) is vertical, x = x_P, exactly when y_P = 0
C17_DoubleVerticalAtYZero ==
  (pc = "law" /\ last.op = "tangent") =>
     /\ ~last.d.err /\ ~last.lt.err
     /\ last.d.pt.Inf <=> last.P.Y = 0
     /\ last.lt.L.Vertical <=> last.P.Y = 0
     /\ last.lt.L.Vertical => last.lt.L.V = last.P.X

\* a point with y = 0 was doubled
C17_Witness ==
  /\ pc = "law" /\ last.op = "tangent"
  /\ last.P.Y = 0 /\ last.d.pt.Inf /\ last.lt.L.Vertical

\* the set of the elements of a slice
Elems(sq) == {sq[n] : n \in 1..Len(sq)}

\* C18: for an on-curve affine P with y_P # 0 the secant through P and neg(P) is the
\* vertical line x = x_P, thirdIntersection(P, neg(P)) returns the identity as third point
\* and exactly the two affine intersections P and neg(P)
C18_VerticalSecant ==
  (pc = "law" /\ last.op = "lines" /\ last.P.Y # 0 /\ last.Q = <<neg(e.C, last.P)>>) =>
     /\ ~last.lt.err /\ last.lt.L.Vertical /\ last.lt.L.V = last.P.X
     /\ ~last.ti.err /\ last.ti.R.Inf
     /\ Len(last.ti.inters) = 2
     /\ Elems(last.ti.inters) = {last.P, neg(e.C, last.P)}

\* the secant through P and neg(P), y_P # 0, was derived
C18_Witness ==
  /\ pc = "law" /\ last.op = "lines"
  /\ last.P.Y # 0 /\ last.Q = <<neg(e.C, last.P)>>
  /\ last.lt.L.Vertical /\ last.ti.R.Inf

\* the lattice points of L on the p x p torus
LatticePoints(c, L) ==
  {xy \in (0..(c.P - 1)) \X (0..(c.P - 1)) : OnLine(c, L, Affine(xy[1], xy[2]))}

\* C19: the line key is a canonical form: two constructions by lineThrough (tangents or
\* secants) have equal keys if and only if they describe the same set of lattice points
C19_KeyCanonical ==
  (pc = "law" /\ last.op = "lines") =>
     /\ ~last.lt.err /\ ~last.lt2.err
     /\ key(last.lt.L) = key(last.lt2.L)
          <=> LatticePoints(e.C, last.lt.L) = LatticePoints(e.C, last.lt2.L)

\* the tangent at P and the secant from another point of that tangent back to P are the
\* same non-vertical line, with the same key
C19_Witness ==
  /\ pc = "law" /\ last.op = "lines"
  /\ last.Q = <<>> /\ last.Q2 = <<last.P>>
  /\ ~last.lt.L.Vertical
  /\ key(last.lt.L) = key(last.lt2.L)

\* C20: markLineExclusions(L, keep) sets the EXCLUDED bit of exactly the lattice points
\* of L that are not in keep; the EXCLUDED bit of every other cell and every FOUND bit
\* stay as they were
C20_MarkLineFrame ==
  (pc = "law" /\ last.op = "mark") =>
     /\ \A xy \in (0..(e.C.P - 1)) \X (0..(e.C.P - 1)) :
          isExcluded(last.after, xy[1], xy[2])
            <=> \/ isExcluded(last.before, xy[1], xy[2])
                \/ /\ xy \in LatticePoints(e.C, last.L)
                   /\ cellKey(xy[1], xy[2]) \notin last.keep
     /\ last.after.excl \subseteq 0..(e.C.P * e.C.P - 1)
     /\ last.after.found = last.before.found
     /\ last.after.p = last.before.p

\* a line was marked on a grid that had FOUND and EXCLUDED bits, one of its points kept
\* and left clear, the others excluded
C20_Witness ==
  /\ pc = "law" /\ last.op = "mark"
  /\ last.before.found # {} /\ last.before.excl # {}
  /\ \E xy \in LatticePoints(e.C, last.L) :
       /\ cellKey(xy[1], xy[2]) \in last.keep
       /\ ~isExcluded(last.after, xy[1], xy[2])
  /\ \E xy \in LatticePoints(e.C, last.L) :
       /\ ~isExcluded(last.before, xy[1], xy[2])
       /\ isExcluded(last.after, xy[1], xy[2])

\* C21: countLegendre returns the exact group order: 1 plus the number of pairs (x, y) in
\* [0,p) x [0,p) with y^2 = x^3 + A x + B (mod p), for all A, B; 12 for A = 0, B = 1, p = 11
C21_CountExact ==
  (pc = "law" /\ last.op = "count") =>
     /\ last.n = 1 + Cardinality(CurvePoints(e.C))
     /\ e.C = [P |-> 11, A |-> 0, B |-> 1] => last.n = 12

\* the curve y^2 = x^3 + 1 over F_11 was counted
C21_Witness ==
  /\ pc = "law" /\ last.op = "count"
  /\ e.C = [P |-> 11, A |-> 0, B |-> 1] /\ last.n = 12

\* a is a non-zero square mod p
IsResidue(a, p) == a % p # 0 /\ \E r \in 1..(p - 1) : (r * r) % p = a % p

\* C22: sqrtModP(a, p), p an odd prime: 0 when a = 0 (mod p); a root r in [0,p) with
\* r*r = a (mod p) when a is a non-zero residue (shortcut and Tonelli-Shanks path); the
\* error, with no value, exactly when a is a non-residue
C22_SqrtModP ==
  (pc = "law" /\ last.op = "sqrt") =>
     /\ last.a % last.p = 0 => (~last.r.err /\ last.r.v = 0)
     /\ IsResidue(last.a, last.p) =>
          /\ ~last.r.err
          /\ last.r.v \in 0..(last.p - 1)
          /\ (last.r.v * last.r.v) % last.p = last.a % last.p
     /\ last.r.err <=> (last.a % last.p # 0 /\ ~IsResidue(last.a, last.p))
     /\ last.r.err => last.r.v = 0

\* a root was found on the Tonelli-Shanks path with its loop entered: p = 17, a = 2 (mod 17)
C22_Witness ==
  /\ pc = "law" /\ last.op = "sqrt"
  /\ last.p = 17 /\ last.a % 17 = 2 /\ last.a > 17
  /\ ~last.r.err /\ (last.r.v * last.r.v) % 17 = 2

\* C23: legendre(a, p), p an odd prime, a any integer: 0 exactly when a = 0 (mod p), +1
\* exactly when a is a non-zero square mod p, -1 otherwise, and no other value
C23_Legendre ==
  (pc = "law" /\ last.op = "legendre") =>
     /\ last.lg \in {0 - 1, 0, 1}
     /\ last.lg = 0 <=> last.a % last.p = 0
     /\ last.lg = 1 <=> IsResidue(last.a, last.p)

\* a negative non-residue was given
C23_Witness ==
  /\ pc = "law" /\ last.op = "legendre"
  /\ last.a < 0 /\ last.lg = 0 - 1 /\ ~IsResidue(last.a, last.p)

\* the configuration must be refused: singular curve, or -grid with p above the limit
BadConfig == isSingular(e.C) \/ (e.UseGrid /\ e.C.P > GridLimit)

\* no engine work done: no grid, no count, no seed drawn, no point, no line
Untouched ==
  /\ e.G = NoGrid /\ e.KnownCount = <<>>
  /\ e.found = <<>> /\ e.order = <<>> /\ e.deadX = {}
  /\ e.linesDone = {} /\ e.tangentDone = {} /\ e.secantDone = {}
  /\ tries = 0 /\ last = NoCall

\* C24: isSingular() is true exactly when 4A^3 + 27B^2 = 0 mod p (A = B = 0 included); a
\* singular curve, or grid mode with p > 10000, is rejected before any engine work: no
\* grid, no count, no seed search, no line
C24_RejectedEarly ==
  [][/\ isSingular(e.C) <=> (4 * e.C.A * e.C.A * e.C.A + 27 * e.C.B * e.C.B) % e.C.P = 0
     /\ (e.C.A = 0 /\ e.C.B = 0) => isSingular(e.C)
     /\ (pc = "start" /\ BadConfig) => pc' = "rejected"
     /\ BadConfig' => (pc' = "rejected" /\ Untouched')
     /\ pc' = "rejected" => BadConfig]_vars

\* a non-singular curve over p = 10007 was refused for its grid
C24_Witness ==
  /\ pc = "rejected" /\ ~isSingular(e.C)
  /\ e.UseGrid /\ e.C.P > GridLimit /\ Untouched

\* the y with (x, y) on the curve
RootsAt(c, x) == {y \in 0..(c.P - 1) : (y * y) % c.P = (x * x * x + c.A * x + c.B) % c.P}

\* findNextSeed is drawing
Reseeding == pc = "reseed" /\ tries < MaxTries

\* C25: whenever a drawn x has Legendre(x^3 + A x + B) = -1, x is marked dead: after the
\* draw x is in deadX
C25_NonResidueMarkedDead ==
  Reseeding =>
    \A x \in 0..(e.C.P - 1) :
      RootsAt(e.C, x) = {} => IntString(x) \in seedDraw(e, x).e.deadX

\* C25 as amended: a drawn x with Legendre -1 costs a try and is not marked: the draw
\* leaves the engine as it was, deadX never holds an x without a root, and only the x in
\* deadX are skipped
C25_NonResidueRetried ==
  pc \in {"reseed", "walk", "walked", "done"} =>
    \A x \in 0..(e.C.P - 1) :
      /\ RootsAt(e.C, x) = {} =>
           /\ IntString(x) \notin e.deadX
           /\ ~seedDraw(e, x).ret /\ seedDraw(e, x).e = e
      /\ IntString(x) \in e.deadX => (~seedDraw(e, x).ret /\ seedDraw(e, x).e = e)

\* findNextSeed has spent a try and marked nothing: the x drawn has no root
C25_Witness ==
  /\ pc = "reseed" /\ tries >= 1 /\ e.deadX = {}
  /\ \E x \in 0..(e.C.P - 1) : RootsAt(e.C, x) = {}

\* C26: whenever findNextSeed returns (P, true), P is an affine point of the curve that
\* is not in found; for an x with two roots of which exactly one is found it returns the
\* other; it marks x dead only when every root at x is found
C26_SeedIsNew ==
  Reseeding =>
    \A x \in 0..(e.C.P - 1) :
      LET d == seedDraw(e, x)
          known == {y \in RootsAt(e.C, x) : pointKey(Affine(x, y)) \in DOMAIN e.found}
      IN /\ d.ret =>
              /\ IsCurvePoint(e.C, d.P) /\ d.P.X = x
              /\ pointKey(d.P) \notin DOMAIN e.found
              /\ d.e = e
         /\ (Cardinality(RootsAt(e.C, x)) = 2 /\ Cardinality(known) = 1) =>
              (d.ret /\ d.P.Y \in RootsAt(e.C, x) \ known)
         /\ d.e.deadX # e.deadX =>
              (~d.ret /\ RootsAt(e.C, x) # {} /\ known = RootsAt(e.C, x))

\* findNextSeed can draw an x with one of two roots found, and an x it will mark dead
C26_Witness ==
  /\ Reseeding
  /\ \E x \in 0..(e.C.P - 1) :
       /\ Cardinality(RootsAt(e.C, x)) = 2
       /\ Cardinality({y \in RootsAt(e.C, x) : pointKey(Affine(x, y)) \in DOMAIN e.found}) = 1
       /\ seedDraw(e, x).ret
  /\ \E x \in 0..(e.C.P - 1) : seedDraw(e, x).e.deadX # e.deadX

\* C27: the preferred x is tried first: if Legendre(x0^3 + A x0 + B) is 0 or 1 for
\* x0 = seedX mod p, findNextSeedFromX returns an on-curve point with X = x0 (Y = 0 for
\* Legendre 0) and draws no random x; random x are drawn only when x0 gives no point
C27_PreferredXFirst ==
  [][(pc = "seed" /\ seedX # <<>>) =>
       /\ RootsAt(e.C, seedX[1] % e.C.P) # {} =>
            /\ pc' = "walk" /\ tries' = tries
            /\ Len(e'.order) = 1
            /\ e'.order[1].X = seedX[1] % e.C.P
            /\ IsCurvePoint(e.C, e'.order[1])
            /\ (0 \in RootsAt(e.C, seedX[1] % e.C.P) => e'.order[1].Y = 0)
       /\ pc' = "seed_rand" => RootsAt(e.C, seedX[1] % e.C.P) = {}]_vars

\* -seed_x 6 over p = 5: the seed is the point over x0 = 1
C27_Witness ==
  /\ pc = "walk" /\ i = 0 /\ seedX = <<6>>
  /\ Len(e.order) = 1 /\ e.order[1].X = 1

\* C28: whenever a seed search exhausts its retry budget without a point, at the initial
\* seeding and at every re-seeding alike, the run ends in failure and gives no result record
C28_ExhaustedFails ==
  [][(pc \in {"seed_rand", "reseed"} /\ ~(tries < MaxTries)) => pc' = "failed"]_vars

\* ---------------------------------------------------------------- ecscan
\* ecscan: the brute-force scanner. main() hands (p, A, B) to enumerateU64 when p fits a
\* uint64 below 2^63 (A and B any uint64, not reduced), to enumerateBig otherwise (A and
\* B any integers). A feeder cuts [0, p) into jobs, workers test every x of a job and
\* send the points found, one writer goroutine writes them; main writes the marker of
\* the point at infinity last.

\* largest -workers explored
MaxWorkers == 2
\* number of chunks [0, p) is cut into (stands for 1024)
Chunks == 3
\* capacity of the points channel (stands for 1 << 16 and 1 << 12)
PointsCap == 2

\* the runs explored: (p, A, B), table mode?, big.Int path?, -workers; the big.Int path
\* runs on small odd p in place of the primes of 2^63 and more that main sends to it
ScanRuns ==
  (({<<2, 0, 1>>, <<5, 1, 1>>, <<5, 0, 12>>} \X BOOLEAN \X {FALSE}) \X (1..MaxWorkers))
  \cup (({<<5, 1, 1>>, <<5, 0 - 1, 12>>} \X {FALSE} \X {TRUE}) \X (1..MaxWorkers))
  \cup (({<<7, 0, 1>>} \X {FALSE} \X BOOLEAN) \X {1})
  \cup {<<<<<<7, 0, 1>>, TRUE, FALSE>>, 1>>, <<<<<<7, 0, 1>>, FALSE, FALSE>>, 2>>}

\* ^uint32(0) / ^uint64(0): the table entry of a non-residue, above every y < p
u32sent == 0 - 1

\* mod64: a + b stays below 2^64 for the parameters explored, c < a never holds
add64(a, b, p) == LET c == a + b IN IF c >= p THEN c - p ELSE c

\* the 128-bit product reduced by bits.Div64
mul64(a, b, p) == (a * b) % p

RECURSIVE pow64Loop(_, _, _, _)
pow64Loop(res, base, ex, p) ==
  IF ex > 0
  THEN pow64Loop(IF ex % 2 = 1 THEN mul64(res, base, p) ELSE res, mul64(base, base, p), ex \div 2, p)
  ELSE res

pow64(a, ex, p) == pow64Loop(1, a % p, ex, p)

legendre64(a, p) ==
  IF a = 0 THEN 0
  ELSE IF pow64(a, (p - 1) \div 2, p) = 1 THEN 1
  ELSE IF pow64(a, (p - 1) \div 2, p) = p - 1 THEN 0 - 1
  ELSE 0

\* p - 1 = q * 2^s
RECURSIVE factor64(_, _)
factor64(q, s) == IF q % 2 = 0 THEN factor64(q \div 2, s + 1) ELSE [q |-> q, s |-> s]

RECURSIVE nonResidue64(_, _)
nonResidue64(z, p) == IF legendre64(z, p) # 0 - 1 THEN nonResidue64(z + 1, p) ELSE z

\* the inner loop: the i with t^(2^i) = 1, or -1 for panic("loop i reached s")
RECURSIVE order64(_, _, _, _)
order64(t2i, k, si, p) ==
  IF t2i = 1 THEN k
  ELSE IF k + 1 = si THEN 0 - 1
  ELSE order64(mul64(t2i, t2i, p), k + 1, si, p)

RECURSIVE loop64(_, _, _, _, _)
loop64(x, t, c, si, p) ==
  IF t = 1 THEN [panic |-> FALSE, v |-> x]
  ELSE LET k == order64(mul64(t, t, p), 1, si, p) IN
       IF k < 0 THEN [panic |-> TRUE, v |-> 0]
       ELSE LET b == pow64(c, 2 ^ (si - k - 1), p)
                b2 == mul64(b, b, p)
            IN loop64(mul64(x, b, p), mul64(t, b2, p), b2, k, p)

tonelli64(n, p) ==
  IF n = 0 THEN [panic |-> FALSE, v |-> 0]
  ELSE IF p = 2 THEN [panic |-> FALSE, v |-> n]
  ELSE IF legendre64(n, p) # 1 THEN [panic |-> TRUE, v |-> 0]
  ELSE loop64(pow64(n, (factor64(p - 1, 0).q + 1) \div 2, p), pow64(n, factor64(p - 1, 0).q, p),
              pow64(nonResidue64(2, p), factor64(p - 1, 0).q, p), factor64(p - 1, 0).s, p)

\* modBig: big.Int.Mod is the Euclidean remainder
addBig(a, b, p) == mod(a + b, p)

mulBig(a, b, p) == mod(a * b, p)

RECURSIVE powBig(_, _, _)
powBig(a, ex, p) == IF ex = 0 THEN 1 % p ELSE mod(powBig(a, ex - 1, p) * a, p)

legendreBig(a, p) ==
  IF a = 0 THEN 0
  ELSE IF powBig(a, (p - 1) \div 2, p) = 1 THEN 1
  ELSE IF powBig(a, (p - 1) \div 2, p) = p - 1 THEN 0 - 1
  ELSE 0

RECURSIVE nonResidueBig(_, _)
nonResidueBig(z, p) == IF legendreBig(z, p) # 0 - 1 THEN nonResidueBig(z + 1, p) ELSE z

RECURSIVE orderBig(_, _, _, _)
orderBig(t2i, k, si, p) ==
  IF t2i = 1 THEN k
  ELSE IF k + 1 = si THEN 0 - 1
  ELSE orderBig(mod(t2i * t2i, p), k + 1, si, p)

RECURSIVE loopBig(_, _, _, _, _)
loopBig(x, t, c, si, p) ==
  IF t = 1 THEN [panic |-> FALSE, v |-> x]
  ELSE LET k == orderBig(mod(t * t, p), 1, si, p) IN
       IF k < 0 THEN [panic |-> TRUE, v |-> 0]
       ELSE LET b == powBig(c, 2 ^ (si - k - 1), p)
                b2 == mod(b * b, p)
            IN loopBig(mod(x * b, p), mod(t * b2, p), b2, k, p)

tonelliBig(n, p) ==
  IF n = 0 THEN [panic |-> FALSE, v |-> 0]
  ELSE IF p % 2 = 0 THEN [panic |-> TRUE, v |-> 0]
  ELSE IF legendreBig(n, p) # 1 THEN [panic |-> TRUE, v |-> 0]
  ELSE loopBig(powBig(n, (factor64(p - 1, 0).q + 1) \div 2, p), powBig(n, factor64(p - 1, 0).q, p),
               powBig(nonResidueBig(2, p), factor64(p - 1, 0).q, p), factor64(p - 1, 0).s, p)

\* fmt.Sprintf("%d %d\n", X, Y) and fmt.Sprintf("%s %s\n", X.String(), Y.String())
WriteU64(pt) == Digits(pt[1]) \o <<32>> \o Digits(pt[2]) \o <<10>>

WriteBig(pt) == IntString(pt[1]) \o <<32>> \o IntString(pt[2]) \o <<10>>

\* math.MaxUint64 in decimal
MaxUint64 == <<49, 56, 52, 52, 54, 55, 52, 52, 48, 55, 51, 55, 48, 57, 53, 53, 49, 54, 49, 53>>

\* the line of the marker: PointU64{MaxUint64, MaxUint64}, PointBig{-1, -1}
Marker(a) ==
  IF a.big THEN WriteBig(<<0 - 1, 0 - 1>>) ELSE MaxUint64 \o <<32>> \o MaxUint64 \o <<10>>

\* buildSqrtTableU64: goroutine w squares the y of its chunk in ascending order and the
\* first store of a residue wins, so T[r] is the least root of r of some chunk
scanMin(S) == CHOOSE y \in S : \A z \in S : y <= z

sqrtOffers(p, workers, r) ==
  LET chunk == (p + workers - 1) \div workers
      roots(w) == {y \in (w * chunk)..(IF w * chunk + chunk > p THEN p - 1 ELSE w * chunk + chunk - 1) :
                     (y * y) % p = r}
  IN {scanMin(roots(w)) : w \in {v \in 0..(workers - 1) : roots(v) # {}}}

RECURSIVE buildSqrtTableU64(_, _, _)
buildSqrtTableU64(p, workers, n) ==
  IF n = 0 THEN {<<>>}
  ELSE {Append(t, y) : t \in buildSqrtTableU64(p, workers, n - 1),
                       y \in IF sqrtOffers(p, workers, n - 1) = {} THEN {u32sent}
                             ELSE sqrtOffers(p, workers, n - 1)}

\* a worker blocked on a channel: at is "recv" (range jobs), "send" (points <- the first
\* of ys over x), "done" or "panic"
AtChannel(at) == [at |-> at, xx |-> 0, x1 |-> 0, x |-> 0, x2 |-> 0, f |-> 0, ys |-> <<>>]

\* the top of `for jb := range jobs`: x, x^2 and f = x^3 + A x + B at jb.x0
jobStart(a, jb) ==
  IF a.big
  THEN [at |-> "loop", xx |-> jb.x0, x1 |-> jb.x1, x |-> jb.x0, x2 |-> mulBig(jb.x0, jb.x0, a.p),
        f |-> addBig(addBig(mulBig(mulBig(mulBig(jb.x0, jb.x0, a.p), jb.x0, a.p), 1, a.p),
                            mulBig(a.A, jb.x0, a.p), a.p), a.B, a.p),
        ys |-> <<>>]
  ELSE [at |-> "loop", xx |-> jb.x0, x1 |-> jb.x1, x |-> jb.x0 % a.p,
        x2 |-> mul64(jb.x0 % a.p, jb.x0 % a.p, a.p),
        f |-> add64(add64(mul64(mul64(mul64(jb.x0 % a.p, jb.x0 % a.p, a.p), jb.x0 % a.p, a.p), 1, a.p),
                          mul64(a.A, jb.x0 % a.p, a.p), a.p), a.B, a.p),
        ys |-> <<>>]

\* the finite-difference update at the bottom of the loop body
jobStep(a, l) ==
  IF a.big
  THEN [l EXCEPT !.xx = @ + 1,
                 !.f = addBig(@, addBig(addBig(addBig(mulBig(3, l.x2, a.p), mulBig(3, l.x, a.p), a.p),
                                               1, a.p), a.A, a.p), a.p),
                 !.x2 = addBig(@, addBig(mulBig(2, l.x, a.p), 1, a.p), a.p),
                 !.x = addBig(@, 1, a.p),
                 !.ys = <<>>]
  ELSE [l EXCEPT !.xx = @ + 1,
                 !.f = add64(@, add64(add64(add64(mul64(3, l.x2, a.p), mul64(3, l.x, a.p), a.p),
                                            1, a.p), a.A, a.p), a.p),
                 !.x2 = add64(@, add64(mul64(2, l.x, a.p), 1, a.p), a.p),
                 !.x = add64(@, 1, a.p),
                 !.ys = <<>>]

\* the y of the points the loop body sends over x for the value f, in order; the table
\* lookup T[f] panics (index out of range) when f is not below len(T) = p
both64(y, p) == IF y # 0 THEN <<y, (p - y) % p>> ELSE <<y>>

bothBig(y, p) == IF y # 0 THEN <<y, p - y>> ELSE <<y>>

rootsOf(a, t, f) ==
  IF a.big
  THEN IF legendreBig(f, a.p) = 1
       THEN [panic |-> tonelliBig(f, a.p).panic, ys |-> bothBig(tonelliBig(f, a.p).v, a.p)]
       ELSE [panic |-> FALSE, ys |-> IF legendreBig(f, a.p) = 0 THEN <<0>> ELSE <<>>]
  ELSE IF a.table
  THEN IF f >= Len(t) THEN [panic |-> TRUE, ys |-> <<>>]
       ELSE [panic |-> FALSE, ys |-> IF t[f + 1] # u32sent THEN both64(t[f + 1], a.p) ELSE <<>>]
  ELSE IF legendre64(f, a.p) = 1
       THEN [panic |-> tonelli64(f, a.p).panic, ys |-> both64(tonelli64(f, a.p).v, a.p)]
       ELSE [panic |-> FALSE, ys |-> IF legendre64(f, a.p) = 0 THEN <<0>> ELSE <<>>]

\* the worker runs on from the loop head l to its next channel operation
RECURSIVE runOn(_, _, _)
runOn(a, t, l) ==
  IF ~(l.xx < l.x1) THEN AtChannel("recv")
  ELSE IF rootsOf(a, t, l.f).panic THEN AtChannel("panic")
  ELSE IF rootsOf(a, t, l.f).ys = <<>> THEN runOn(a, t, jobStep(a, l))
  ELSE [l EXCEPT !.at = "send", !.ys = rootsOf(a, t, l.f).ys]

\* chunk of the feeder: ceil(p / chunks) and p / chunks + 1
chunkOf(a) == IF a.big THEN a.p \div Chunks + 1 ELSE (a.p + Chunks - 1) \div Chunks

\* a run of ecscan about to enumerate: mode resolved, writer opened
InitScan ==
  /\ \E r \in ScanRuns :
       scanArgs = [p |-> r[1][1][1], A |-> r[1][1][2], B |-> r[1][1][3],
                   table |-> r[1][2], big |-> r[1][3], workers |-> r[2]]
  /\ scanPc = "begin"
  /\ sqrtT = <<>>
  /\ jobs = [buf |-> <<>>, closed |-> FALSE]
  /\ points = [buf |-> <<>>, closed |-> FALSE]
  /\ wg = 0 /\ wgW = 0
  /\ worker = <<>>
  /\ feedS = 0 /\ fed = <<>> /\ out = <<>>
  /\ e = <<>> /\ seedX = <<>> /\ pc = "scan"
  /\ i = 0 /\ j = 0 /\ processed = 0 /\ tries = 0
  /\ linesProcessed = 0
  /\ ret = "none" /\ stop = "none"
  /\ exhausted = FALSE
  /\ linesBefore = 0
  /\ last = <<>>

\* a goroutine runs while the process lives
Running == scanPc \notin {"off", "begin", "panicked"}

\* the table is built, the channels made, the writer and the workers started
StartScan ==
  /\ scanPc = "begin"
  /\ sqrtT' \in IF scanArgs.table THEN buildSqrtTableU64(scanArgs.p, scanArgs.workers, scanArgs.p)
                ELSE {<<>>}
  /\ wgW' = 1
  /\ wg' = scanArgs.workers
  /\ worker' = [w \in 1..scanArgs.workers |-> AtChannel("recv")]
  /\ scanPc' = "feed"
  /\ UNCHANGED <<scanArgs, jobs, points, feedS, fed, out>>
  /\ UNCHANGED walkVars

\* jobs <- job{s, min(s + chunk, p)}; blocks while the channel holds workers * 2 jobs
Feed ==
  /\ scanPc = "feed" /\ feedS < scanArgs.p
  /\ Len(jobs.buf) < scanArgs.workers * 2
  /\ jobs' = [jobs EXCEPT !.buf = Append(@, [x0 |-> feedS,
                 x1 |-> IF feedS + chunkOf(scanArgs) > scanArgs.p THEN scanArgs.p
                        ELSE feedS + chunkOf(scanArgs)])]
  /\ fed' = Append(fed, [x0 |-> feedS,
                 x1 |-> IF feedS + chunkOf(scanArgs) > scanArgs.p THEN scanArgs.p
                        ELSE feedS + chunkOf(scanArgs)])
  /\ feedS' = feedS + chunkOf(scanArgs)
  /\ UNCHANGED <<scanArgs, scanPc, sqrtT, points, wg, wgW, worker, out>>
  /\ UNCHANGED walkVars

CloseJobs ==
  /\ scanPc = "feed" /\ ~(feedS < scanArgs.p)
  /\ jobs' = [jobs EXCEPT !.closed = TRUE]
  /\ scanPc' = "wait"
  /\ UNCHANGED <<scanArgs, sqrtT, points, wg, wgW, worker, feedS, fed, out>>
  /\ UNCHANGED walkVars

\* wg.Wait(); close(points)
WaitWorkers ==
  /\ scanPc = "wait" /\ wg = 0
  /\ points' = [points EXCEPT !.closed = TRUE]
  /\ scanPc' = "waitW"
  /\ UNCHANGED <<scanArgs, sqrtT, jobs, wg, wgW, worker, feedS, fed, out>>
  /\ UNCHANGED walkVars

\* main goes on without waiting for the writer
WaitWriter_skip ==
  /\ scanPc = "waitW"
  /\ scanPc' = "marker"
  /\ UNCHANGED <<scanArgs, sqrtT, jobs, points, wg, wgW, worker, feedS, fed, out>>
  /\ UNCHANGED walkVars

\* wgW.Wait()
WaitWriter ==
  /\ scanPc = "waitW" /\ wgW = 0
  /\ scanPc' = "marker"
  /\ UNCHANGED <<scanArgs, sqrtT, jobs, points, wg, wgW, worker, feedS, fed, out>>
  /\ UNCHANGED walkVars

\* the marker of the point at infinity, then return nil
WriteMarker ==
  /\ scanPc = "marker"
  /\ out' = Append(out, Marker(scanArgs))
  /\ scanPc' = "returned"
  /\ UNCHANGED <<scanArgs, sqrtT, jobs, points, wg, wgW, worker, feedS, fed>>
  /\ UNCHANGED walkVars

\* worker w moves to r; a panic ends the process
workerAt(w, r) ==
  IF r.at = "panic"
  THEN scanPc' = "panicked" /\ UNCHANGED worker
  ELSE worker' = [worker EXCEPT ![w] = r] /\ UNCHANGED scanPc

\* a worker receives a job and runs to its first send
WorkerTake ==
  /\ Running
  /\ \E w \in DOMAIN worker :
       /\ worker[w].at = "recv" /\ jobs.buf # <<>>
       /\ workerAt(w, runOn(scanArgs, sqrtT, jobStart(scanArgs, Head(jobs.buf))))
  /\ jobs' = [jobs EXCEPT !.buf = Tail(@)]
  /\ UNCHANGED <<scanArgs, sqrtT, points, wg, wgW, feedS, fed, out>>
  /\ UNCHANGED walkVars

\* points <- PointU64{x, y}; blocks while the channel is full
WorkerSend ==
  /\ Running
  /\ Len(points.buf) < PointsCap
  /\ \E w \in DOMAIN worker :
       /\ worker[w].at = "send"
       /\ points' = [points EXCEPT !.buf = Append(@, <<worker[w].x, Head(worker[w].ys)>>)]
       /\ workerAt(w, IF Tail(worker[w].ys) # <<>> THEN [worker[w] EXCEPT !.ys = Tail(@)]
                      ELSE runOn(scanArgs, sqrtT, jobStep(scanArgs, worker[w])))
  /\ UNCHANGED <<scanArgs, sqrtT, jobs, wg, wgW, feedS, fed, out>>
  /\ UNCHANGED walkVars

\* range jobs ends: wg.Done()
WorkerExit ==
  /\ Running
  /\ jobs.buf = <<>> /\ jobs.closed
  /\ \E w \in DOMAIN worker :
       /\ worker[w].at = "recv"
       /\ worker' = [worker EXCEPT ![w] = AtChannel("done")]
  /\ wg' = wg - 1
  /\ UNCHANGED <<scanArgs, scanPc, sqrtT, jobs, points, wgW, feedS, fed, out>>
  /\ UNCHANGED walkVars

\* the writer goroutine: for pt := range points { w.Write(pt) }
WriterWrite ==
  /\ Running /\ wgW = 1
  /\ points.buf # <<>>
  /\ out' = Append(out, IF scanArgs.big THEN WriteBig(Head(points.buf)) ELSE WriteU64(Head(points.buf)))
  /\ points' = [points EXCEPT !.buf = Tail(@)]
  /\ UNCHANGED <<scanArgs, scanPc, sqrtT, jobs, wg, wgW, worker, feedS, fed>>
  /\ UNCHANGED walkVars

WriterExit ==
  /\ Running /\ wgW = 1
  /\ points.buf = <<>> /\ points.closed
  /\ wgW' = 0
  /\ UNCHANGED <<scanArgs, scanPc, sqrtT, jobs, points, wg, worker, feedS, fed, out>>
  /\ UNCHANGED walkVars

NextScan ==
  \/ StartScan \/ Feed \/ CloseJobs \/ WaitWorkers \/ WaitWriter \/ WriteMarker
  \/ WorkerTake \/ WorkerSend \/ WorkerExit
  \/ WriterWrite \/ WriterExit

SpecScan == InitScan /\ [][NextScan]_vars

\* the affine solutions of y^2 = x^3 + A x + B over F_p
ScanPoints(a) ==
  {xy \in (0..(a.p - 1)) \X (0..(a.p - 1)) :
     (xy[2] * xy[2]) % a.p = mod(xy[1] * xy[1] * xy[1] + a.A * xy[1] + a.B, a.p)}

LineOf(a, pt) == IF a.big THEN WriteBig(pt) ELSE WriteU64(pt)

\* everything sent to the writer so far, in the order sent: the lines written and the
\* points still in the channel
Sent ==
  SelectSeq(out, LAMBDA l : l # Marker(scanArgs))
    \o [k \in 1..Len(points.buf) |-> LineOf(scanArgs, points.buf[k])]

\* the jobs sent so far are consecutive non-empty half-open ranges from 0 on
FedInOrder ==
  /\ \A k \in 1..Len(fed) :
       /\ fed[k].x0 < fed[k].x1 /\ fed[k].x1 <= scanArgs.p
       /\ fed[k].x0 = IF k = 1 THEN 0 ELSE fed[k - 1].x1
  /\ scanPc \notin {"begin", "feed"} => (fed # <<>> /\ fed[Len(fed)].x1 = scanArgs.p)

SentOnceIn(s, lines) ==
  /\ \A k \in 1..Len(s) : s[k] \in lines
  /\ \A k, m \in 1..Len(s) : k # m => s[k] # s[m]

SentOnce == SentOnceIn(Sent, {LineOf(scanArgs, pt) : pt \in ScanPoints(scanArgs)})

SentAllIn(s, lines) == \A l \in lines : \E k \in 1..Len(s) : s[k] = l

SentAll == SentAllIn(Sent, {LineOf(scanArgs, pt) : pt \in ScanPoints(scanArgs)})

\* C29: in every interleaving of feeder, workers and writer, for every number of workers,
\* the jobs partition [0, p), nothing but a point of the curve is sent to the writer, no
\* point is sent twice, and once no worker runs any more every affine point has been sent
C29_EachPointOnce ==
  /\ FedInOrder
  /\ SentOnce
  /\ scanPc \in {"waitW", "marker", "returned", "panicked"} => SentAll

\* the same for odd p with A and B below p, or on the fly, or on the big.Int path
ScanReduced ==
  /\ scanArgs.p % 2 = 1
  /\ \/ scanArgs.big
     \/ ~scanArgs.table
     \/ (scanArgs.A < scanArgs.p /\ scanArgs.B < scanArgs.p)

EachPointOnce_Reduced == ScanReduced => C29_EachPointOnce

EachPointOnce_Witness ==
  /\ ScanReduced /\ scanArgs.workers = 2 /\ scanPc = "returned"
  /\ Len(out) > 8

MarkerAt == {k \in 1..Len(out) : out[k] = Marker(scanArgs)}

\* C30: the marker of the point at infinity is written once and is the last line: it is
\* in the output only when every worker is done, the points channel is closed and empty,
\* the writer goroutine has ended and every affine point is written, and it is there when
\* the enumeration returns
C30_MarkerLast ==
  /\ \A k \in MarkerAt : k = Len(out)
  /\ MarkerAt # {} =>
       /\ wg = 0 /\ \A w \in DOMAIN worker : worker[w].at = "done"
       /\ points.closed /\ points.buf = <<>>
       /\ wgW = 0
       /\ \A pt \in ScanPoints(scanArgs) : \E k \in 1..(Len(out) - 1) : out[k] = LineOf(scanArgs, pt)
  /\ scanPc = "returned" => MarkerAt # {}

\* two workers, eleven points and the marker
C30_Witness ==
  /\ scanPc = "returned" /\ scanArgs.workers = 2
  /\ Len(out) = 12 /\ out[12] = Marker(scanArgs)

\* ---------------------------------------------------------------- the walk, continued
\* C31: the counter compared with the cap counts the lines actually processed: it moves
\* only by one and only together with a new key in linesDone, an attempt whose line key
\* is already in linesDone leaves it alone, and it is never set back within a run
C31_CountsNewLinesOnly ==
  [][/\ processed' >= processed
     /\ processed' # processed =>
          (processed' = processed + 1 /\ e'.linesDone # e.linesDone)]_vars

\* the identity, or an affine solution of the curve equation
Solves(c, Pt) ==
  Pt.Inf \/ (Pt.Y * Pt.Y) % c.P = (Pt.X * Pt.X * Pt.X + c.A * Pt.X + c.B) % c.P

\* the identity and every lattice point
Candidates(c) == {InfPoint} \cup {Affine(x, y) : x \in 0..(c.P - 1), y \in 0..(c.P - 1)}

\* r is what addFound(en, Pt) gave
AddFoundOk(en, Pt, r) ==
  IF pointKey(Pt) \in DOMAIN en.found \/ ~Solves(en.C, Pt)
  THEN ~r.ok /\ r.e = en
  ELSE /\ r.ok
       /\ r.e.found = mapPut(en.found, pointKey(Pt), Pt)
       /\ IF Pt.Inf
          THEN r.e = [en EXCEPT !.found = r.e.found]
          ELSE /\ r.e.order = Append(en.order, Pt)
               /\ r.e.indexOf = mapPut(en.indexOf, pointKey(Pt), Len(en.order))
               /\ r.e.G.excl = en.G.excl
               /\ r.e.G.found = IF en.UseGrid THEN en.G.found \cup {Pt.Y * en.C.P + Pt.X} ELSE en.G.found
               /\ r.e = [en EXCEPT !.found = r.e.found, !.order = r.e.order,
                                   !.indexOf = r.e.indexOf, !.G = r.e.G]
       /\ addFound(r.e, Pt) = [ok |-> FALSE, e |-> r.e]

\* the engines addFound is tried on: before the first seed and after each walk
AtRest == pc \in {"seed", "walked"}

\* C32: addFound(P) returns false and changes nothing when P is already in found or is
\* not on the curve; otherwise it returns true, puts P into found and, for an affine P,
\* appends it to order, records its index and sets its FOUND bit in grid mode, leaving
\* everything else alone; a second addFound(P) is a no-op
C32_AddFoundFrame ==
  AtRest => \A Pt \in Candidates(e.C) : AddFoundOk(e, Pt, addFound(e, Pt))

\* a grid engine after a walk, with points found and a curve point still missing
C32_Witness ==
  /\ pc = "walked" /\ e.UseGrid /\ Len(e.order) >= 2
  /\ \E Pt \in Candidates(e.C) :
       ~Pt.Inf /\ Solves(e.C, Pt) /\ pointKey(Pt) \notin DOMAIN e.found /\ addFound(e, Pt).ok

\* C33: a walk without cap that runs off the end of order (no early stop) has handled
\* every point of order, those appended during the walk included: each point key is in
\* tangentDone and each pair of distinct points of order is in secantDone
C33_WalkCoversOrder ==
  (stop = "end" /\ e.MaxLines = 0) =>
    /\ \A n \in 1..Len(e.order) : pointKey(e.order[n]) \in e.tangentDone
    /\ \A n \in 1..Len(e.order) : \A m \in 1..(n - 1) :
         pairKey(e.order[n], e.order[m]) \in e.secantDone

\* the walk started from one seed and ended with five points or more
C33_Witness ==
  /\ pc = "walked" /\ stop = "end" /\ e.MaxLines = 0 /\ e.KnownCount = <<>>
  /\ Len(e.order) >= 5
  /\ Cardinality(e.secantDone) >= 10

\* C34: no inverse fails: on a non-singular curve add never errs on two points of the
\* curve (the identity included), lineThrough and thirdIntersection never err on the
\* tangent at an affine point nor on the secant through two affine points, and no walk
\* of any run returns an error
C34_NoInverseFailure ==
  /\ pc # "died"
  /\ pc = "seed" =>
       \A P \in PointsOf(e.C) : \A Q \in PointsOf(e.C) :
         /\ ~add(e.C, P, Q).err
         /\ ~P.Inf => (~lineThrough(e.C, P, <<>>).err /\ ~thirdIntersection(e.C, P, <<>>).err)
         /\ (~P.Inf /\ ~Q.Inf) =>
              (~lineThrough(e.C, P, <<Q>>).err /\ ~thirdIntersection(e.C, P, <<Q>>).err)

\* a grid walk has returned after sloped tangents and secants with an affine third point
C34_Witness ==
  /\ pc = "walked" /\ e.UseGrid
  /\ Cardinality(e.linesDone) >= 6
  /\ last.called /\ last.Q # <<>> /\ ~last.L.Vertical /\ ~last.R.Inf

\* every outer iteration from (t, c, m) on finds its i below m and continues with m = i,
\* until t = 1
RECURSIVE TSDescends(_, _, _, _)
TSDescendsFrom(t, c, m, p, k) ==
  /\ k >= 1 /\ k < m
  /\ TSDescends(mulM(t, TSSquare(c, m - k, p), p), TSSquare(c, m - k, p), k, p)

TSDescends(t, c, m, p) == t = 1 \/ TSDescendsFrom(t, c, m, p, TSOrder((t * t) % p, 1, m, p))

TSDescendsAt(a, p, q, s) == TSDescends(powM(a, q, p), powM(TSNonResidue(2, p), q, p), s, p)

\* C35: sqrtModP(a, p) with p = 1 (mod 4) and a a non-zero residue: every outer iteration
\* of the Tonelli-Shanks loop finds i < m, m strictly decreases, the loop ends with t = 1,
\* and the call returns a root and not the failure
C35_TonelliShanksNeverFails ==
  (pc = "law" /\ last.op = "sqrt" /\ last.p % 4 = 1 /\ IsResidue(last.a, last.p)) =>
     /\ ~last.r.err
     /\ (last.r.v * last.r.v) % last.p = last.a % last.p
     /\ TSDescendsAt(mod(last.a, last.p), last.p,
                     TSFactor(last.p - 1, 0).q, TSFactor(last.p - 1, 0).s)

\* p = 17 = 1 * 2^4 + 1 and a = 8 (mod 17), of order 8: the first search ends at i = 3 < 4
C35_Witness ==
  /\ pc = "law" /\ last.op = "sqrt"
  /\ last.p = 17 /\ last.a < 0 /\ last.a % 17 = 8
  /\ TSOrder((8 * 8) % 17, 1, 4, 17) = 3
  /\ ~last.r.err /\ (last.r.v * last.r.v) % 17 = 8

\* C36: deadX is sound: it holds only keys of x in [0, p), and for each of them every
\* affine point of the curve with that x is in found
C36_DeadXSound ==
  pc \notin {"start", "rejected"} =>
    /\ e.deadX \subseteq {IntString(x) : x \in 0..(e.C.P - 1)}
    /\ \A x \in 0..(e.C.P - 1) :
         IntString(x) \in e.deadX =>
           \A y \in RootsAt(e.C, x) : pointKey(Affine(x, y)) \in DOMAIN e.found

\* findNextSeed skips a dead x with two roots while another x still gives a new seed
C36_Witness ==
  /\ Reseeding /\ tries >= 1
  /\ \E x \in 0..(e.C.P - 1) :
       IntString(x) \in e.deadX /\ Cardinality(RootsAt(e.C, x)) = 2
  /\ \E x \in 0..(e.C.P - 1) : seedDraw(e, x).ret

\* C37: found, order, indexOf and the grid agree in every state: order has no point
\* twice, the identity is not in found, the points of order are the entries of found,
\* indexOf gives each point key its index in order, a grid cell is FOUND exactly when its
\* point is in found, and at most N - 1 affine points are found
C37_FoundOrderGridAgree ==
  pc \notin {"start", "rejected"} =>
    /\ \A m, n \in 1..Len(e.order) : e.order[m] = e.order[n] => m = n
    /\ pointKey(InfPoint) \notin DOMAIN e.found
    /\ \A k \in DOMAIN e.found : ~e.found[k].Inf /\ pointKey(e.found[k]) = k
    /\ OrderPoints = FoundPoints
    /\ DOMAIN e.indexOf = {pointKey(e.order[n]) : n \in 1..Len(e.order)}
    /\ \A n \in 1..Len(e.order) : e.indexOf[pointKey(e.order[n])] = n - 1
    /\ \A n \in 1..Len(e.order) :
         e.order[n].X \in 0..(e.C.P - 1) /\ e.order[n].Y \in 0..(e.C.P - 1)
    /\ e.UseGrid =>
         e.G.found = {idx(e.G, e.order[n].X, e.order[n].Y) : n \in 1..Len(e.order)}
    /\ finiteCount(e) <= countLegendre(e.C) - 1

\* a grid run is complete after a re-seeding: every affine point of the curve is found
C37_Witness ==
  /\ pc = "done" /\ e.UseGrid /\ exhausted = FALSE
  /\ Len(e.order) >= 6 /\ e.deadX # {}
  /\ finiteCount(e) = countLegendre(e.C) - 1

\* the done-sets of engine en agree with its linesDone
DoneSetsHaveLines(en) ==
  /\ \A n \in 1..Len(en.order) :
       pointKey(en.order[n]) \in en.tangentDone =>
         key(lineThrough(en.C, en.order[n], <<>>).L) \in en.linesDone
  /\ \A n \in 1..Len(en.order) : \A m \in 1..(n - 1) :
       pairKey(en.order[n], en.order[m]) \in en.secantDone =>
         /\ key(lineThrough(en.C, en.order[n], <<en.order[m]>>).L) \in en.linesDone
         /\ key(lineThrough(en.C, en.order[m], <<en.order[n]>>).L) \in en.linesDone
  /\ en.tangentDone \subseteq {pointKey(en.order[n]) : n \in 1..Len(en.order)}
  /\ en.secantDone \subseteq {pairKey(en.order[n], en.order[m]) : n, m \in 1..Len(en.order)}

\* C38: between two line-processing steps the done-sets agree with linesDone: the
\* tangent at every point whose key is in tangentDone, and the line through every pair
\* whose key is in secantDone, has its key in linesDone; the done-sets hold keys of
\* points and pairs of order only. The engine is looked at after every step that
\* changes it.
C38_DoneSetsHaveLines ==
  [][(pc # "start" /\ e' # e) => DoneSetsHaveLines(e')]_vars

\* a walk stands between two secants, and several done tangents and pairs were lines
\* already in linesDone
C38_Witness ==
  /\ pc = "secant" /\ j >= 1
  /\ Cardinality(e.tangentDone) >= 3 /\ Cardinality(e.secantDone) >= 3
  /\ Cardinality(e.linesDone) + 2 <= Cardinality(e.tangentDone) + Cardinality(e.secantDone)

\* the walk / re-seed loop of main
InLoop == InWalk \/ pc \in {"walked", "reseed"}

\* the largest rank of a walk
WalkTop == (NPoints + 1) * (NPoints + 4)

\* position of main in its walk / re-seed loop: the affine points found, then the place
\* within one round (the walk, its return, the draws of findNextSeed)
loopRank ==
  finiteCount(e) * (WalkTop + MaxTries + 3)
    + (IF InWalk THEN walkRank
       ELSE IF pc = "walked" THEN WalkTop + 1
       ELSE WalkTop + 2 + tries)

\* C39: every seed findNextSeed returns is accepted by addFound: a successful re-seeding
\* happens only below N - 1 affine found points and adds exactly one (the first seeding
\* makes it one), the count never passes N - 1, so there are at most N - 1 successful
\* seedings; every step of the walk / re-seed loop raises a bounded rank, and the loop
\* is left with the count complete or the seed search exhausted
C39_ReseedingProgress ==
  [][/\ (pc = "reseed" /\ pc' = "walk") =>
          /\ e.KnownCount # <<>> /\ finiteCount(e) < e.KnownCount[1] - 1
          /\ finiteCount(e') = finiteCount(e) + 1
          /\ Len(e'.order) = Len(e.order) + 1
     /\ (pc \in {"seed", "seed_rand"} /\ pc' = "walk") => finiteCount(e') = 1
     /\ (pc' \notin {"start", "rejected"} /\ e'.KnownCount # <<>>) =>
          /\ e'.KnownCount[1] = countLegendre(e'.C)
          /\ finiteCount(e') <= e'.KnownCount[1] - 1
     /\ (InLoop /\ InLoop') =>
          (loopRank' > loopRank /\ loopRank' <= (2 * e.C.P + 1) * (WalkTop + MaxTries + 3))
     /\ (InLoop /\ e.KnownCount # <<>> /\ pc' = "done") =>
          (isComplete(e') \/ (exhausted' /\ pc = "reseed" /\ ~(tries < MaxTries)))
     /\ (InLoop /\ ~InLoop') => pc' = "done"]_vars

\* the walk from a seed that findNextSeed returned is about to start
C39_Witness ==
  /\ pc = "walk" /\ i = 0 /\ ret = "walked"
  /\ e.KnownCount # <<>> /\ e.linesDone # {}
  /\ Len(e.order) >= 3
  /\ pointKey(e.order[Len(e.order)]) \notin e.tangentDone
  /\ \A n \in 1..(Len(e.order) - 1) : pointKey(e.order[n]) \in e.tangentDone

====
